---- MODULE Spec2Model ----
(***************************************************************************)
(* Model of the thunder-sweep wallet pipeline:                             *)
(*   - wallet_worker.ts: the worker's onmessage handler;                   *)
(*   - modules/wallet_generator.ts: generateWalletsParallel and            *)
(*     generateWalletsSequential;                                          *)
(*   - seed_wallets_workers (unnamed/part_000): processAddressesWithWorkers*)
(*   - seed_wallets.ts (unnamed/part_006): getSeedPhrasesFromEnv and the   *)
(*     sequential seedWallets loop; the seed loop of seedWalletsParallel;  *)
(*   - the construction of the batch list of both pools;                   *)
(*   - the benchmark's runBenchmark capacity probe (benchmark.md);         *)
(*   - wallet_balance_cli (unnamed/part_002): getOptimalBatchSize and the  *)
(*     two balance fetches.                                                *)
(* Array indices are 0-based as in the source; TLA+ sequences are 1-based, *)
(* so batches[k] of the source is batches[k + 1] here.                     *)
(***************************************************************************)
EXTENDS Integers, Sequences, FiniteSets, TLC

VARIABLES
    pc,               \* position of the main thread of the operation modelled
    \* ---- the workers (wallet_worker.ts) and their two message channels
    inbox,            \* inbox[w]: task messages posted to worker w, not yet handled
    outbox,           \* outbox[w]: result messages worker w posted, not yet handled
    terminated,       \* terminated[w]: number of terminate() calls made on worker w
    crashed,          \* crashed[w]: worker w died with an uncaught error
    posted,           \* posted[k]: how many times batches[k] was posted to a worker
    answered,         \* indices k of batches for which a result message was received
    failed,           \* indices k of batches for which an 'error' result was handled
    settled,          \* state of the returned promise: pending, resolved, rejected
    resolveValue,     \* the number processAddressesWithWorkers resolved with
    batchSize,
    progress,         \* the percentage of the `Progress:` line logged last, or NoReport
    \* ---- generateWalletsParallel
    seedPhrase, count, workerCount, addresses, completedBatches,
    \* ---- processAddressesWithWorkers
    seedIndex, mnemonic, maxAddressIndex, concurrency,
    processedCount, pendingBatches,
    kv,               \* the Deno KV store: key -> address
    kvWrites,         \* kvWrites[key]: number of kv.set calls completed on key
    awaiting,         \* onmessage handlers suspended at `await Promise.all(kvPromises)`
    \* ---- runBenchmark (the capacity probe)
    START_WALLET_COUNT, MAX_WALLET_COUNT, WALLET_COUNT_INCREMENT, RETRY_COUNT,
    walletCount, lastSuccessfulCount,
    benchmarkResults, \* the log; the model keeps its first logLimit records
    logLimit,
    bestResult,
    tier, retry,      \* position in `for (batchSize of BATCH_SIZES) for (retry ...)`
    timer,            \* milliseconds of the setTimeout the loop is waiting on, or 0
    lastLevel,        \* the level evaluated last: its wallet count and outcome
    maxSucceeded,     \* the largest wallet count whose level succeeded so far, or 0
    tierStats,        \* calls, faults and delays of the current tier in this level
    levelStats,       \* calls made in this level, and whether one returned partially
    fastest,          \* smallest timeMs of the full-success responses of this level, or 0
    \* ---- the balance CLI (wallet_balance_cli: unnamed/part_002)
    argBatchSize,     \* its `batchSize`: parseInt(args["batch-size"]), 0 = auto-select
    allWallets,       \* the wallet list the balances are fetched for
    ethLedger,        \* what the endpoint answers for getEthBalance(address)
    tokenLedger,      \* what the endpoint answers for balanceOf(address)
    ethBalances,      \* the list fetchEthBalances returned
    tokenData,        \* main's tokenData: one entry per token whose balances were fetched
    requestBatchSize, \* the batchSize option of the multicall issued last
    sizeOf,           \* sizeOf[n]: what getOptimalBatchSize(n) returned
    \* ---- the construction of the batch list (both pools)
    fn,               \* the function that is running, "" when a later phase is modelled
    optBatchSize,     \* options.batchSize as the caller gave it; 0 when it is left out
    loopIndex,        \* `i` of `for (let i = 0; ...; i += batchSize)`
    batchList,        \* `batches`, the array the loop fills
    \* ---- seedWallets and seedWalletsParallel: the loop over the seed phrases
    env,              \* the environment object: variable name -> value
    seedPhrases,      \* what getSeedPhrasesFromEnv(env) returned
    seedPos,          \* position of the `for (... of seedPhrases)` loop, from 1
    addressIndex, storedCount,
    run,              \* 1 during the first call of the function, 2 during a second one
    kvLog,            \* the keys of the kv.set calls made, in call order
    threw,            \* threw[r][s]: the index at which seed s threw in run r
    kvAfterFirst,     \* the store as the first call left it
    workersCreated    \* number of `new Worker(...)` executed

poolVars == <<inbox, outbox, terminated, crashed, posted, answered, failed, settled,
              resolveValue, batchSize, progress>>
genVars == <<seedPhrase, count, workerCount, addresses, completedBatches>>
pawVars == <<seedIndex, mnemonic, maxAddressIndex, concurrency,
             processedCount, pendingBatches, kv, kvWrites, awaiting>>
probeConfig == <<START_WALLET_COUNT, MAX_WALLET_COUNT, WALLET_COUNT_INCREMENT, RETRY_COUNT,
                 logLimit>>
probeVars == <<probeConfig, walletCount, lastSuccessfulCount, benchmarkResults,
               bestResult, tier, retry, timer, lastLevel, maxSucceeded, tierStats, levelStats,
               fastest>>
cliVars == <<argBatchSize, allWallets, ethLedger, tokenLedger, ethBalances, tokenData,
             requestBatchSize, sizeOf>>
partVars == <<fn, optBatchSize, loopIndex, batchList>>
seedVars == <<env, seedPhrases, seedPos, addressIndex, storedCount, run, kvLog, threw,
              kvAfterFirst, workersCreated>>
vars == <<pc, poolVars, genVars, pawVars, probeVars, cliVars, partVars, seedVars>>

\* ---- bounds of the model
MaxWorkers == 3
MaxCount == 4
MaxBatchSize == 2

Min(a, b) == IF a < b THEN a ELSE b
Max(a, b) == IF a > b THEN a ELSE b

\* An unfilled slot of `new Array(count)`.
Empty == <<>>

\* mnemonicToAccount(mnemonic, {addressIndex}).address: an external pure function
\* of (mnemonic, index), injective in both.
Derive(m, i) == <<"addr", m, i>>

\* The variables of an operation that a specification does not run stay at these
\* values.
ProbeIdle ==
    /\ START_WALLET_COUNT = 0 /\ MAX_WALLET_COUNT = 0
    /\ WALLET_COUNT_INCREMENT = 0 /\ RETRY_COUNT = 0 /\ logLimit = 0
    /\ walletCount = 0 /\ lastSuccessfulCount = 0
    /\ benchmarkResults = <<>> /\ bestResult = <<>>
    /\ tier = 0 /\ retry = 0 /\ timer = 0 /\ lastLevel = <<>>
    /\ maxSucceeded = 0 /\ tierStats = <<>> /\ levelStats = <<>>
    /\ fastest = 0

CliIdle ==
    /\ argBatchSize = 0 /\ allWallets = <<>> /\ ethLedger = <<>> /\ tokenLedger = <<>>
    /\ ethBalances = <<>> /\ tokenData = <<>> /\ requestBatchSize = 0
    /\ sizeOf = <<>>

PartIdle ==
    /\ fn = "" /\ optBatchSize = 0 /\ loopIndex = 0 /\ batchList = <<>>

SeedIdle ==
    /\ env = <<>> /\ seedPhrases = <<>> /\ seedPos = 0
    /\ addressIndex = 0 /\ storedCount = 0 /\ run = 0
    /\ kvLog = <<>> /\ threw = <<>> /\ kvAfterFirst = <<>> /\ workersCreated = 0

GenIdle ==
    /\ seedPhrase = 0 /\ count = 0 /\ workerCount = 0
    /\ addresses = <<>> /\ completedBatches = 0

PawIdle ==
    /\ seedIndex = 0 /\ mnemonic = 0 /\ maxAddressIndex = 0 /\ concurrency = 0
    /\ processedCount = 0 /\ pendingBatches = 0
    /\ kv = <<>> /\ kvWrites = <<>> /\ awaiting = {}

\* no `Progress:` line has been logged yet
NoReport == -1

PoolIdle ==
    /\ inbox = <<>> /\ outbox = <<>> /\ terminated = <<>> /\ crashed = <<>>
    /\ posted = <<>> /\ answered = {} /\ failed = {}
    /\ settled = "pending" /\ resolveValue = 0 /\ batchSize = 0
    /\ progress = NoReport

(***************************************************************************)
(* wallet_worker.ts                                                        *)
(***************************************************************************)
TaskMessage(m, s, batch) ==
    [mnemonic |-> m, seedIndex |-> s, startIndex |-> batch.start, endIndex |-> batch.end]

\* the loop `for (let i = startIndex; i <= endIndex; i++) addresses.push(...)`
WorkerAddresses(m, startIndex, endIndex) ==
    [k \in 1..Max(0, endIndex - startIndex + 1) |->
        [index |-> startIndex + k - 1, address |-> Derive(m, startIndex + k - 1)]]

SuccessResult(task) ==
    [type |-> "success", seedIndex |-> task.seedIndex,
     startIndex |-> task.startIndex, endIndex |-> task.endIndex,
     addresses |-> WorkerAddresses(task.mnemonic, task.startIndex, task.endIndex)]

\* A faulty variant of ErrorResult: the addresses derived before the error are sent
\* along.
ErrorResultPartial(task) ==
    [type |-> "error", seedIndex |-> task.seedIndex,
     startIndex |-> task.startIndex, endIndex |-> task.endIndex,
     addresses |-> WorkerAddresses(task.mnemonic, task.startIndex, task.startIndex)]

\* the catch branch: no addresses field at all
ErrorResult(task) ==
    [type |-> "error", seedIndex |-> task.seedIndex,
     startIndex |-> task.startIndex, endIndex |-> task.endIndex,
     addresses |-> <<>>]

Alive(w) == terminated[w] = 0 /\ ~crashed[w]

\* self.onmessage: derive every address of the task and post 'success', or post
\* 'error' when the derivation throws (ok = FALSE).
WorkerOnMessage(w) ==
    /\ w \in DOMAIN inbox
    /\ Alive(w)
    /\ inbox[w] # <<>>
    /\ \E ok \in BOOLEAN :
         outbox' = [outbox EXCEPT ![w] =
                      Append(@, IF ok THEN SuccessResult(Head(inbox[w]))
                                      ELSE ErrorResult(Head(inbox[w])))]
    /\ inbox' = [inbox EXCEPT ![w] = Tail(@)]
    /\ UNCHANGED <<pc, terminated, crashed, posted, answered, failed, settled, resolveValue,
                   batchSize, progress, genVars, pawVars, probeVars, cliVars, partVars, seedVars>>

\* workers.forEach(w => w.terminate())
TerminateAll(t) == [w \in DOMAIN t |-> t[w] + 1]

\* resolve()/reject() of a promise that is already settled has no effect
Settle(cur, how) == IF cur = "pending" THEN how ELSE cur

\* A faulty variant of PostTo: the task always goes to the first worker.
PostToFirst(box, w, task) == [box EXCEPT ![0] = Append(@, task)]

\* worker.postMessage(task), recorded in the per-batch post counter
PostTo(box, w, task) == [box EXCEPT ![w] = Append(@, task)]
CountPost(p, k) == [p EXCEPT ![k] = @ + 1]

(***************************************************************************)
(* modules/wallet_generator.ts: generateWalletsParallel                    *)
(***************************************************************************)
\* for (let i = 0; i < count; i += batchSize) batches.push({start: i, end: min(...)})
RECURSIVE BatchesFrom(_, _, _)
BatchesFrom(i, n, bs) ==
    IF i < n
    THEN <<[start |-> i, end |-> Min(i + bs - 1, n - 1)]>> \o BatchesFrom(i + bs, n, bs)
    ELSE <<>>

Batches(n, bs) == BatchesFrom(0, n, bs)

\* generateWalletsSequential: addresses[i] = derive(seedPhrase, i), i = 0..count-1
GenerateWalletsSequential(m, n) == [i \in 0..(n - 1) |-> Derive(m, i)]

\* result.addresses.forEach(({index, address}) => addresses[index] = address)
RECURSIVE StoreAddresses(_, _)
StoreAddresses(arr, list) ==
    IF list = <<>> THEN arr
    ELSE StoreAddresses([arr EXCEPT ![Head(list).index] = Head(list).address], Tail(list))

\* workerIndex + workerCount * Math.floor(completedBatches / workerCount)
GenNextBatchIndex(w, completed, n) == w + n * (completed \div n)

GenInit ==
    /\ pc = "start"
    /\ seedPhrase = 1
    /\ count \in 0..MaxCount
    /\ workerCount \in 1..MaxWorkers
    /\ batchSize \in 1..MaxBatchSize
    /\ addresses = [i \in 0..(count - 1) |-> Empty]
    /\ completedBatches = 0
    /\ inbox = [w \in 0..(workerCount - 1) |-> <<>>]
    /\ outbox = [w \in 0..(workerCount - 1) |-> <<>>]
    /\ terminated = [w \in 0..(workerCount - 1) |-> 0]
    /\ crashed = [w \in 0..(workerCount - 1) |-> FALSE]
    /\ posted = [k \in 0..(Len(Batches(count, batchSize)) - 1) |-> 0]
    /\ answered = {}
    /\ failed = {}
    /\ settled = "pending"
    /\ resolveValue = 0
    /\ progress = NoReport
    /\ PawIdle
    /\ ProbeIdle
    /\ CliIdle
    /\ PartIdle /\ SeedIdle

\* the initial assignment: batches[i] to workers[i], i < min(workerCount, batches.length)
GenStart ==
    /\ pc = "start"
    /\ LET batches == Batches(count, batchSize)
           initialBatchCount == Min(workerCount, Len(batches))
       IN /\ inbox' = [w \in DOMAIN inbox |->
                         IF w < initialBatchCount
                         THEN Append(inbox[w], TaskMessage(seedPhrase, 0, batches[w + 1]))
                         ELSE inbox[w]]
          /\ posted' = [k \in DOMAIN posted |->
                          IF k < initialBatchCount THEN posted[k] + 1 ELSE posted[k]]
    /\ pc' = "running"
    /\ UNCHANGED <<outbox, terminated, crashed, answered, failed, settled, resolveValue,
                   batchSize, progress, genVars, pawVars, probeVars, cliVars, partVars, seedVars>>

\* Index in batches of the batch a result message answers.
BatchIndexOf(batches, result) ==
    CHOOSE k \in 0..(Len(batches) - 1) : batches[k + 1].start = result.startIndex

\* Math.round((num / den) * 100)
Percent(num, den) == (200 * num + den) \div (2 * den)

\* completedBatches % Math.max(1, Math.floor(totalBatches / 10)) === 0
\*     || completedBatches === totalBatches
ReportsProgress(completed, totalBatches) ==
    \/ completed % Max(1, totalBatches \div 10) = 0
    \/ completed = totalBatches

\* worker.onmessage, result.type === 'success'
GenOnSuccess(w) ==
    /\ pc = "running"
    /\ w \in DOMAIN outbox
    /\ terminated[w] = 0
    /\ outbox[w] # <<>>
    /\ Head(outbox[w]).type = "success"
    /\ LET result == Head(outbox[w])
           batches == Batches(count, batchSize)
           totalBatches == Len(batches)
           completed == completedBatches + 1
           nextBatchIndex == GenNextBatchIndex(w, completed, workerCount)
           more == nextBatchIndex < Len(batches)
           done == completed = totalBatches
       IN /\ addresses' = StoreAddresses(addresses, result.addresses)
          /\ completedBatches' = completed
          /\ inbox' = IF more
                      THEN PostTo(inbox, w, TaskMessage(seedPhrase, 0, batches[nextBatchIndex + 1]))
                      ELSE inbox
          /\ posted' = IF more THEN CountPost(posted, nextBatchIndex) ELSE posted
          /\ terminated' = IF done THEN TerminateAll(terminated) ELSE terminated
          /\ settled' = IF done THEN Settle(settled, "resolved") ELSE settled
          /\ answered' = answered \cup {BatchIndexOf(batches, result)}
          /\ progress' = IF ReportsProgress(completed, totalBatches)
                         THEN Percent(completed, totalBatches)
                         ELSE progress
    /\ outbox' = [outbox EXCEPT ![w] = Tail(@)]
    /\ UNCHANGED <<pc, crashed, failed, resolveValue, batchSize,
                   seedPhrase, count, workerCount, pawVars, probeVars, cliVars, partVars, seedVars>>

\* worker.onmessage, result.type === 'error': terminate every worker and reject
GenOnErrorResult(w) ==
    /\ pc = "running"
    /\ w \in DOMAIN outbox
    /\ terminated[w] = 0
    /\ outbox[w] # <<>>
    /\ Head(outbox[w]).type = "error"
    /\ failed' = failed \cup {BatchIndexOf(Batches(count, batchSize), Head(outbox[w]))}
    /\ answered' = answered \cup {BatchIndexOf(Batches(count, batchSize), Head(outbox[w]))}
    /\ terminated' = TerminateAll(terminated)
    /\ settled' = Settle(settled, "rejected")
    /\ outbox' = [outbox EXCEPT ![w] = Tail(@)]
    /\ UNCHANGED <<pc, inbox, crashed, posted, resolveValue, batchSize, progress, genVars, pawVars, probeVars, cliVars, partVars, seedVars>>

\* worker.onerror: an uncaught error in worker w; terminate every worker and reject
GenOnError(w) ==
    /\ pc = "running"
    /\ w \in DOMAIN inbox
    /\ Alive(w)
    /\ inbox[w] # <<>>
    /\ crashed' = [crashed EXCEPT ![w] = TRUE]
    /\ terminated' = TerminateAll(terminated)
    /\ settled' = Settle(settled, "rejected")
    /\ UNCHANGED <<pc, inbox, outbox, posted, answered, failed, resolveValue, batchSize, progress,
                   genVars, pawVars, probeVars, cliVars, partVars, seedVars>>

GenNext ==
    \/ GenStart
    \/ \E w \in DOMAIN inbox : WorkerOnMessage(w)
    \/ \E w \in DOMAIN inbox : GenOnSuccess(w)
    \/ \E w \in DOMAIN inbox : GenOnErrorResult(w)
    \/ \E w \in DOMAIN inbox : GenOnError(w)

SpecGen == GenInit /\ [][GenNext]_vars

\* The event loop runs the initial assignment and delivers every queued result; a
\* live worker answers every task it holds. No fairness is assumed for GenOnError:
\* a worker need not crash.
FairSpecGen ==
    /\ GenInit /\ [][GenNext]_vars
    /\ WF_vars(GenStart)
    /\ \A w \in 0..MaxWorkers : WF_vars(WorkerOnMessage(w))
    /\ \A w \in 0..MaxWorkers : WF_vars(GenOnSuccess(w))
    /\ \A w \in 0..MaxWorkers : WF_vars(GenOnErrorResult(w))

(***************************************************************************)
(* Claims about generateWalletsParallel                                    *)
(***************************************************************************)
\* C1: in generateWalletsParallel each batch is posted to a worker exactly once: no
\* batch is ever posted a second time, and when the promise resolves no batch has
\* been left unposted.
C1_EachBatchPostedExactlyOnce ==
    /\ \A k \in DOMAIN posted : posted[k] <= 1
    /\ settled = "resolved" => \A k \in DOMAIN posted : posted[k] = 1

\* C2: when generateWalletsParallel resolves, the returned array equals the array
\* generateWalletsSequential returns: slot i holds derive(seed, i) for every
\* i in 0..count-1 and no slot is unfilled.
C2_ParallelEqualsSequential ==
    settled = "resolved" => addresses = GenerateWalletsSequential(seedPhrase, count)

(***************************************************************************)
(* seed_wallets.ts: the sequential seedWallets loop for one valid seed     *)
(***************************************************************************)
\* const kvKey = ["wallet_address", `seed_${seedIndex}`, index]
KvKey(s, i) == <<"wallet_address", s, i>>

\* for (addressIndex = 0; addressIndex <= maxAddressIndex; addressIndex++)
\*     await kv.set(kvKey, mnemonicToAccount(mnemonic, {addressIndex}).address)
SeedWalletsStore(s, m, maxIdx) ==
    [key \in {KvKey(s, i) : i \in 0..maxIdx} |-> Derive(m, key[3])]

(***************************************************************************)
(* seed_wallets_workers (unnamed/part_000): processAddressesWithWorkers    *)
(***************************************************************************)
\* for (let i = 0; i <= maxAddressIndex; i += batchSize)
\*     batches.push({start: i, end: Math.min(i + batchSize - 1, maxAddressIndex)})
RECURSIVE PoolBatchesFrom(_, _, _)
PoolBatchesFrom(i, maxIdx, bs) ==
    IF i <= maxIdx
    THEN <<[start |-> i, end |-> Min(i + bs - 1, maxIdx)]>> \o PoolBatchesFrom(i + bs, maxIdx, bs)
    ELSE <<>>

PoolBatches(maxIdx, bs) == PoolBatchesFrom(0, maxIdx, bs)

\* A faulty variant of PoolNextBatchIndex: the index of the batch dispatched last,
\* not of the next one.
PoolNextBatchIndexStale(total, pending) == Max(0, total - pending - 1)

\* const nextBatchIndex = batches.length - pendingBatches
PoolNextBatchIndex(total, pending) == total - pending

\* A faulty variant of PendingAfterError: the failed batch is counted as unassigned
\* again.
PendingAfterErrorRequeue(pending) == pending + 1

\* pendingBatches-- of the 'error' branch
PendingAfterError(pending) == pending - 1

\* kv.set(kvKey, address) taking effect
KvSet(store, key, address) == (key :> address) @@ store

CountWrite(writes, key) ==
    IF key \in DOMAIN writes THEN [writes EXCEPT ![key] = @ + 1] ELSE (key :> 1) @@ writes

\* Math.round((1 - (pendingBatches / batches.length)) * 100)
PercentComplete(pending, total) == Percent(total - pending, total)

\* if (processedCount >= maxAddressIndex + 1)
AllProcessed(processed, maxIdx) == processed >= maxIdx + 1

PawInit ==
    /\ pc = "start"
    /\ seedIndex = 1
    /\ mnemonic = 1
    /\ maxAddressIndex \in 0..(MaxCount - 1)
    /\ concurrency \in 1..MaxWorkers
    /\ batchSize \in 1..MaxBatchSize
    /\ processedCount = 0
    /\ pendingBatches = Len(PoolBatches(maxAddressIndex, batchSize))
    /\ kv = <<>> /\ kvWrites = <<>> /\ awaiting = {}
    /\ inbox = [w \in 0..(concurrency - 1) |-> <<>>]
    /\ outbox = [w \in 0..(concurrency - 1) |-> <<>>]
    /\ terminated = [w \in 0..(concurrency - 1) |-> 0]
    /\ crashed = [w \in 0..(concurrency - 1) |-> FALSE]
    /\ posted = [k \in 0..(Len(PoolBatches(maxAddressIndex, batchSize)) - 1) |-> 0]
    /\ answered = {}
    /\ failed = {}
    /\ settled = "pending"
    /\ resolveValue = 0
    /\ progress = NoReport
    /\ GenIdle
    /\ ProbeIdle
    /\ CliIdle
    /\ PartIdle /\ SeedIdle

\* the initial assignment: batches[i] goes to workers[workerIndex], workerIndex
\* starting at 0 and stepping by one, and pendingBatches-- for each
PawStart ==
    /\ pc = "start"
    /\ LET batches == PoolBatches(maxAddressIndex, batchSize)
           initialBatchCount == Min(concurrency, Len(batches))
       IN /\ inbox' = [w \in DOMAIN inbox |->
                         IF w < initialBatchCount
                         THEN Append(inbox[w], TaskMessage(mnemonic, seedIndex, batches[w + 1]))
                         ELSE inbox[w]]
          /\ posted' = [k \in DOMAIN posted |->
                          IF k < initialBatchCount THEN posted[k] + 1 ELSE posted[k]]
          /\ pendingBatches' = pendingBatches - initialBatchCount
    /\ pc' = "running"
    /\ UNCHANGED <<outbox, terminated, crashed, answered, failed, settled, resolveValue, batchSize, progress,
                   genVars, probeVars, cliVars, partVars, seedVars, seedIndex, mnemonic, maxAddressIndex, concurrency,
                   processedCount, kv, kvWrites, awaiting>>

\* worker.onmessage, result.type === 'success', up to `await Promise.all(kvPromises)`:
\* one kv.set is issued per address of the result, and the handler suspends
PawOnSuccessBegin(w) ==
    /\ pc = "running"
    /\ w \in DOMAIN outbox
    /\ terminated[w] = 0
    /\ outbox[w] # <<>>
    /\ Head(outbox[w]).type = "success"
    /\ awaiting' = awaiting \cup
          {[worker |-> w, result |-> Head(outbox[w]),
            todo |-> DOMAIN Head(outbox[w]).addresses]}
    /\ answered' = answered \cup
          {BatchIndexOf(PoolBatches(maxAddressIndex, batchSize), Head(outbox[w]))}
    /\ outbox' = [outbox EXCEPT ![w] = Tail(@)]
    /\ UNCHANGED <<pc, inbox, terminated, crashed, posted, failed, settled, resolveValue,
                   batchSize, progress, genVars, probeVars, cliVars, partVars, seedVars, seedIndex, mnemonic, maxAddressIndex, concurrency,
                   processedCount, pendingBatches, kv, kvWrites>>

\* one of the kv.set calls a suspended handler issued completes
PawKvSetDone(h, k) ==
    /\ h \in awaiting
    /\ k \in h.todo
    /\ LET entry == h.result.addresses[k]
           key == KvKey(seedIndex, entry.index)
       IN /\ kv' = KvSet(kv, key, entry.address)
          /\ kvWrites' = CountWrite(kvWrites, key)
    /\ awaiting' = (awaiting \ {h}) \cup {[h EXCEPT !.todo = @ \ {k}]}
    /\ UNCHANGED <<pc, poolVars, genVars, probeVars, cliVars, partVars, seedVars, seedIndex, mnemonic, maxAddressIndex,
                   concurrency, processedCount, pendingBatches>>

\* the 'success' handler after the await: count the addresses, give this worker the
\* next unassigned batch, and resolve once every address has been processed
PawOnSuccessResume(h) ==
    /\ h \in awaiting
    /\ h.todo = {}
    /\ LET batches == PoolBatches(maxAddressIndex, batchSize)
           processed == processedCount + Len(h.result.addresses)
           nextBatchIndex == PoolNextBatchIndex(Len(batches), pendingBatches)
           more == nextBatchIndex < Len(batches)
           done == AllProcessed(processed, maxAddressIndex)
       IN /\ processedCount' = processed
          /\ pendingBatches' = IF more THEN pendingBatches - 1 ELSE pendingBatches
          /\ inbox' = IF more
                      THEN PostTo(inbox, h.worker,
                                  TaskMessage(mnemonic, seedIndex, batches[nextBatchIndex + 1]))
                      ELSE inbox
          /\ posted' = IF more THEN CountPost(posted, nextBatchIndex) ELSE posted
          /\ terminated' = IF done THEN TerminateAll(terminated) ELSE terminated
          /\ settled' = IF done THEN Settle(settled, "resolved") ELSE settled
          /\ resolveValue' = IF done /\ settled = "pending"
                             THEN maxAddressIndex + 1 ELSE resolveValue
          /\ progress' = PercentComplete(pendingBatches', Len(batches))
    /\ awaiting' = awaiting \ {h}
    /\ UNCHANGED <<pc, outbox, crashed, answered, failed, batchSize, genVars, probeVars, cliVars, partVars, seedVars, seedIndex, mnemonic,
                   maxAddressIndex, concurrency, kv, kvWrites>>

\* worker.onmessage, result.type === 'error': pendingBatches--, and resolve with
\* processedCount when pendingBatches is then 0
PawOnErrorResult(w) ==
    /\ pc = "running"
    /\ w \in DOMAIN outbox
    /\ terminated[w] = 0
    /\ outbox[w] # <<>>
    /\ Head(outbox[w]).type = "error"
    /\ LET pending == PendingAfterError(pendingBatches)
           done == pending = 0
       IN /\ pendingBatches' = pending
          /\ terminated' = IF done THEN TerminateAll(terminated) ELSE terminated
          /\ settled' = IF done THEN Settle(settled, "resolved") ELSE settled
          /\ resolveValue' = IF done /\ settled = "pending"
                             THEN processedCount ELSE resolveValue
    /\ failed' = failed \cup
          {BatchIndexOf(PoolBatches(maxAddressIndex, batchSize), Head(outbox[w]))}
    /\ answered' = answered \cup
          {BatchIndexOf(PoolBatches(maxAddressIndex, batchSize), Head(outbox[w]))}
    /\ outbox' = [outbox EXCEPT ![w] = Tail(@)]
    /\ UNCHANGED <<pc, inbox, crashed, posted, batchSize, progress, genVars, probeVars, cliVars, partVars, seedVars, seedIndex, mnemonic,
                   maxAddressIndex, concurrency, processedCount, kv, kvWrites, awaiting>>

\* worker.onerror: an uncaught error in worker w; the promise is rejected and no
\* worker is terminated
PawOnError(w) ==
    /\ pc = "running"
    /\ w \in DOMAIN inbox
    /\ Alive(w)
    /\ inbox[w] # <<>>
    /\ crashed' = [crashed EXCEPT ![w] = TRUE]
    /\ settled' = Settle(settled, "rejected")
    /\ UNCHANGED <<pc, inbox, outbox, terminated, posted, answered, failed, resolveValue, batchSize, progress,
                   genVars, pawVars, probeVars, cliVars, partVars, seedVars>>

PawNext ==
    \/ PawStart
    \/ \E w \in DOMAIN inbox : WorkerOnMessage(w)
    \/ \E w \in DOMAIN inbox : PawOnSuccessBegin(w)
    \/ \E h \in awaiting : \E k \in h.todo : PawKvSetDone(h, k)
    \/ \E h \in awaiting : PawOnSuccessResume(h)
    \/ \E w \in DOMAIN inbox : PawOnErrorResult(w)
    \/ \E w \in DOMAIN inbox : PawOnError(w)

SpecPool == PawInit /\ [][PawNext]_vars

\* The event loop delivers every queued message and resumes every handler whose
\* awaited writes are done; a live worker answers every task it holds. No fairness
\* is assumed for PawOnError: a worker need not crash.
FairSpecPool ==
    /\ PawInit /\ [][PawNext]_vars
    /\ WF_vars(PawStart)
    /\ \A w \in 0..MaxWorkers : WF_vars(WorkerOnMessage(w))
    /\ \A w \in 0..MaxWorkers : WF_vars(PawOnSuccessBegin(w))
    /\ \A w \in 0..MaxWorkers : WF_vars(PawOnErrorResult(w))
    /\ WF_vars(\E h \in awaiting : \E k \in h.todo : PawKvSetDone(h, k))
    /\ WF_vars(\E h \in awaiting : PawOnSuccessResume(h))

(***************************************************************************)
(* Claims about processAddressesWithWorkers                                *)
(***************************************************************************)
\* Indices covered by the batches of the set ks.
IndicesOf(batches, ks) ==
    UNION {batches[k + 1].start .. batches[k + 1].end : k \in ks}

\* No message is queued in either direction and no handler is suspended.
PoolQuiescent ==
    /\ pc = "running"
    /\ \A w \in DOMAIN inbox : inbox[w] = <<>> /\ outbox[w] = <<>>
    /\ awaiting = {}

\* C3: the promise returned by processAddressesWithWorkers eventually settles for
\* every pattern of worker results, provided every worker answers every task it was
\* sent: a failed batch never leaves the caller suspended forever.
C3_PromiseEventuallySettles == <>(settled # "pending")

\* C4: when a worker returns an 'error' result for one batch, every other batch is
\* still dispatched and stored: at completion the only indices missing from the
\* store are those of batches that themselves returned an error.
C4_OnlyFailedBatchesMissing ==
    settled = "resolved" =>
        \A i \in 0..maxAddressIndex :
            KvKey(seedIndex, i) \notin DOMAIN kv =>
                i \in IndicesOf(PoolBatches(maxAddressIndex, batchSize), failed)

\* C5: pendingBatches starts at the number of batches and is decremented once per
\* received result, so it always equals the number of batches whose result has not
\* been received and is never negative; completion is signalled exactly when it is
\* 0, never while a dispatched batch is unanswered or a batch is unassigned.
C5_PendingCountsUnansweredBatches ==
    /\ pendingBatches >= 0
    /\ pendingBatches = Cardinality(DOMAIN posted \ answered)
    /\ settled = "resolved" =>
          /\ pendingBatches = 0
          /\ \A k \in DOMAIN posted : posted[k] >= 1 /\ k \in answered

\* C6: when no batch returns an error, processAddressesWithWorkers ends with the
\* store holding exactly (seed, i) -> derive(seed, i) for i = 0..maxAddressIndex,
\* each key written exactly once, resolved with maxAddressIndex + 1, whatever the
\* concurrency, the batch size and the order of the results: the store sequential
\* seedWallets writes. A run without error that has nothing left to do has resolved.
C6_NoErrorStoreEqualsSequential ==
    /\ (settled = "resolved" /\ failed = {}) =>
          /\ kv = SeedWalletsStore(seedIndex, mnemonic, maxAddressIndex)
          /\ DOMAIN kvWrites = DOMAIN kv
          /\ \A key \in DOMAIN kvWrites : kvWrites[key] = 1
          /\ resolveValue = maxAddressIndex + 1
    /\ (PoolQuiescent /\ failed = {} /\ \A w \in DOMAIN crashed : ~crashed[w]) =>
          settled = "resolved"

\* C6 witness: three batches on two workers, all successful, resolved.
C6_Witness ==
    /\ settled = "resolved" /\ failed = {}
    /\ concurrency = 2
    /\ Len(PoolBatches(maxAddressIndex, batchSize)) >= 3
    /\ resolveValue = maxAddressIndex + 1
    /\ kv = SeedWalletsStore(seedIndex, mnemonic, maxAddressIndex)

(***************************************************************************)
(* benchmark.md: runBenchmark, the capacity probe (CSV-capable version)    *)
(***************************************************************************)
\* const BATCH_SIZES = [1024, 2048, 4096, 8192, 16384]
BATCH_SIZES == <<1024, 2048, 4096, 8192, 16384>>

\* if (WALLET_COUNT_INCREMENT <= 10) break;
MinResolution == 10
\* Math.floor(WALLET_COUNT_INCREMENT / 5)
BacktrackDivisor == 5

\* ---- bounds of the probe model
MaxLog == 1
MaxTimeMs == 2

\* let bestResult: BenchmarkResult | null = null
NoResult == <<>>

\* The configurations explored (START_WALLET_COUNT, MAX_WALLET_COUNT,
\* WALLET_COUNT_INCREMENT, RETRY_COUNT): the defaults' floor and increment with a
\* ceiling that lets the probe pass 250, and small ones with the increment below,
\* at and above the minimum resolution. log is the number of records of
\* benchmarkResults the model keeps for the configuration.
ProbeConfigs ==
    { [start |-> 50, max |-> 300, increment |-> 50, retries |-> 1, log |-> 0],
      [start |-> 5,  max |-> 10,  increment |-> 5,  retries |-> 3, log |-> 0],
      [start |-> 10, max |-> 20,  increment |-> 10, retries |-> 1, log |-> MaxLog],
      [start |-> 20, max |-> 40,  increment |-> 15, retries |-> 2, log |-> 0],
      [start |-> 12, max |-> 12,  increment |-> 12, retries |-> 1, log |-> MaxLog] }

\* benchmarkResults.push(record)
PushResult(log, limit, record) == IF Len(log) < limit THEN Append(log, record) ELSE log

BenchmarkResult(wc, bs, ok, t) ==
    [walletCount |-> wc, batchSize |-> bs, success |-> ok, timeMs |-> t]

\* A faulty variant of BetterResult: the first successful result of the level is
\* kept whatever the later ones measure.
BetterResultFirst(best, result) ==
    IF best = NoResult THEN result ELSE best

\* if (!bestResult || result.timeMs < bestResult.timeMs) bestResult = result
BetterResult(best, result) ==
    IF best = NoResult \/ result.timeMs < best.timeMs THEN result ELSE best

\* A faulty variant of AtMinResolution: the comparison is strict.
AtMinResolutionStrict(increment) == increment < MinResolution

\* WALLET_COUNT_INCREMENT <= 10
AtMinResolution(increment) == increment <= MinResolution

\* A faulty variant of BacktrackCount: the backtrack forgets to shrink the step.
BacktrackCountFullStep(lastSuccess, increment) == lastSuccess + increment

\* A faulty variant of BacktrackCount: the backtrack restarts from zero instead of
\* from the last successful count.
BacktrackCountRestart(lastSuccess, increment) == increment \div BacktrackDivisor

\* walletCount = lastSuccessfulCount + Math.floor(WALLET_COUNT_INCREMENT / 5)
BacktrackCount(lastSuccess, increment) == lastSuccess + (increment \div BacktrackDivisor)

\* A faulty variant of AdvanceCount: a success advances by the shrunk step of the
\* backtrack.
AdvanceCountShrunk(wc, increment) == wc + (increment \div BacktrackDivisor)

\* walletCount += WALLET_COUNT_INCREMENT
AdvanceCount(wc, increment) == wc + increment

\* await new Promise(resolve => setTimeout(resolve, 1000)); // Wait before retry
RetryDelayMs == 1000

\* The counters of a level in which no call has been made yet.
NoTierStats == [calls |-> 0, faults |-> 0, delays |-> 0]
NoLevelStats == [calls |-> 0, partial |-> FALSE]

\* One more call of the current tier has been made; fault: it threw.
CountTierCall(stats, fault) ==
    [stats EXCEPT !.calls = @ + 1, !.faults = IF fault THEN @ + 1 ELSE @]

\* One more call of the level has been made; partial: it returned with a sub-lookup
\* reported as failed.
CountLevelCall(stats, partial) ==
    [calls |-> stats.calls + 1, partial |-> stats.partial \/ partial]

ProbeInit ==
    /\ pc = "while"
    /\ \E c \in ProbeConfigs :
          /\ START_WALLET_COUNT = c.start
          /\ MAX_WALLET_COUNT = c.max
          /\ WALLET_COUNT_INCREMENT = c.increment
          /\ RETRY_COUNT = c.retries
          /\ logLimit = c.log
          /\ walletCount = c.start
    /\ lastSuccessfulCount = 0
    /\ benchmarkResults = <<>>
    /\ bestResult = NoResult
    /\ tier = 0 /\ retry = 0 /\ timer = 0
    /\ lastLevel = <<>>
    /\ maxSucceeded = 0
    /\ tierStats = NoTierStats
    /\ levelStats = NoLevelStats
    /\ fastest = 0
    /\ PoolIdle /\ GenIdle /\ PawIdle /\ CliIdle /\ PartIdle /\ SeedIdle

\* while (walletCount <= MAX_WALLET_COUNT) { bestResult = null; ...
ProbeEnterLevel ==
    /\ pc = "while"
    /\ walletCount <= MAX_WALLET_COUNT
    /\ bestResult' = NoResult
    /\ tier' = 0 /\ retry' = 0
    /\ tierStats' = NoTierStats
    /\ levelStats' = NoLevelStats
    /\ fastest' = 0
    /\ pc' = IF RETRY_COUNT > 0 THEN "call" ELSE "eval"
    /\ UNCHANGED <<poolVars, genVars, pawVars, cliVars, partVars, seedVars, probeConfig, walletCount,
                   lastSuccessfulCount, benchmarkResults, timer, lastLevel, maxSucceeded>>

\* the loop condition fails: the benchmark reports lastSuccessfulCount
ProbeExit ==
    /\ pc = "while"
    /\ walletCount > MAX_WALLET_COUNT
    /\ pc' = "done"
    /\ UNCHANGED <<poolVars, genVars, pawVars, probeVars, cliVars, partVars, seedVars>>

\* `break` out of the retry loop: on to the next batch size
NextTier ==
    /\ tier' = tier + 1
    /\ retry' = 0
    /\ pc' = IF tier + 1 < Len(BATCH_SIZES) THEN "call" ELSE "eval"

\* A faulty variant of NextRetry: the tier is given up after its first failed call.
NextRetryGiveUp == NextTier

\* retry++ at the end of one round of the retry loop
NextRetry ==
    IF retry + 1 < RETRY_COUNT
    THEN tier' = tier /\ retry' = retry + 1 /\ pc' = "call"
    ELSE NextTier

\* fetchBalancesMulticall returned and every sub-lookup succeeded, in timeMs = t
ProbeCallSuccess ==
    /\ pc = "call"
    /\ \E t \in 1..MaxTimeMs :
         LET result == BenchmarkResult(walletCount, BATCH_SIZES[tier + 1], TRUE, t)
         IN /\ bestResult' = BetterResult(bestResult, result)
            /\ benchmarkResults' = PushResult(benchmarkResults, logLimit, result)
            /\ fastest' = IF fastest = 0 THEN t ELSE Min(fastest, t)
    /\ tierStats' = NoTierStats
    /\ levelStats' = CountLevelCall(levelStats, FALSE)
    /\ NextTier
    /\ UNCHANGED <<poolVars, genVars, pawVars, cliVars, partVars, seedVars, probeConfig, walletCount,
                   lastSuccessfulCount, timer, lastLevel, maxSucceeded>>

\* fetchBalancesMulticall returned with some sub-lookup reported as failed:
\* allSuccess is false, nothing is recorded and the next retry follows at once
ProbeCallPartial ==
    /\ pc = "call"
    /\ levelStats' = CountLevelCall(levelStats, TRUE)
    /\ NextRetry
    /\ tierStats' = IF tier' = tier THEN CountTierCall(tierStats, FALSE) ELSE NoTierStats
    /\ UNCHANGED <<poolVars, genVars, pawVars, cliVars, partVars, seedVars, probeConfig, fastest, walletCount,
                   lastSuccessfulCount, benchmarkResults, bestResult, timer, lastLevel,
                   maxSucceeded>>

\* fetchBalancesMulticall threw (transport fault): a failed record is pushed and
\* the loop waits on the 1 s timer
ProbeCallFault ==
    /\ pc = "call"
    /\ benchmarkResults' =
          PushResult(benchmarkResults, logLimit,
                     BenchmarkResult(walletCount, BATCH_SIZES[tier + 1], FALSE, 0))
    /\ tierStats' = CountTierCall(tierStats, TRUE)
    /\ levelStats' = CountLevelCall(levelStats, FALSE)
    /\ timer' = RetryDelayMs
    /\ pc' = "delay"
    /\ UNCHANGED <<poolVars, genVars, pawVars, cliVars, partVars, seedVars, probeConfig, fastest, walletCount,
                   lastSuccessfulCount, bestResult, tier, retry, lastLevel, maxSucceeded>>

\* the 1 s timer of the catch block fires: the next retry follows
ProbeRetryDelayDone ==
    /\ pc = "delay"
    /\ timer' = 0
    /\ NextRetry
    /\ tierStats' = IF tier' = tier THEN [tierStats EXCEPT !.delays = @ + 1] ELSE NoTierStats
    /\ UNCHANGED <<poolVars, genVars, pawVars, cliVars, partVars, seedVars, probeConfig, fastest, walletCount,
                   lastSuccessfulCount, benchmarkResults, bestResult, lastLevel,
                   maxSucceeded, levelStats>>

\* if (!bestResult) { if (WALLET_COUNT_INCREMENT <= 10) break; ...
ProbeStop ==
    /\ pc = "eval"
    /\ bestResult = NoResult
    /\ AtMinResolution(WALLET_COUNT_INCREMENT)
    /\ lastLevel' = [walletCount |-> walletCount, success |-> FALSE]
    /\ pc' = "done"
    /\ UNCHANGED <<poolVars, genVars, pawVars, cliVars, partVars, seedVars, probeConfig, fastest, walletCount,
                   lastSuccessfulCount, benchmarkResults, bestResult, tier, retry,
                   timer, maxSucceeded, tierStats, levelStats>>

\* ... walletCount = lastSuccessfulCount + Math.floor(WALLET_COUNT_INCREMENT / 5) }
ProbeBacktrack ==
    /\ pc = "eval"
    /\ bestResult = NoResult
    /\ ~AtMinResolution(WALLET_COUNT_INCREMENT)
    /\ walletCount' = BacktrackCount(lastSuccessfulCount, WALLET_COUNT_INCREMENT)
    /\ lastLevel' = [walletCount |-> walletCount, success |-> FALSE]
    /\ pc' = "while"
    /\ UNCHANGED <<poolVars, genVars, pawVars, cliVars, partVars, seedVars, probeConfig, fastest,
                   lastSuccessfulCount, benchmarkResults, bestResult, tier, retry,
                   timer, maxSucceeded, tierStats, levelStats>>

\* else { lastSuccessfulCount = walletCount; walletCount += WALLET_COUNT_INCREMENT; }
ProbeLevelSucceeded ==
    /\ pc = "eval"
    /\ bestResult # NoResult
    /\ lastSuccessfulCount' = walletCount
    /\ walletCount' = AdvanceCount(walletCount, WALLET_COUNT_INCREMENT)
    /\ lastLevel' = [walletCount |-> walletCount, success |-> TRUE]
    /\ maxSucceeded' = Max(maxSucceeded, walletCount)
    /\ pc' = "while"
    /\ UNCHANGED <<poolVars, genVars, pawVars, cliVars, partVars, seedVars, probeConfig, fastest,
                   benchmarkResults, bestResult, tier, retry, timer, tierStats, levelStats>>

ProbeNext ==
    \/ ProbeEnterLevel
    \/ ProbeExit
    \/ ProbeCallSuccess
    \/ ProbeCallPartial
    \/ ProbeCallFault
    \/ ProbeRetryDelayDone
    \/ ProbeStop
    \/ ProbeBacktrack
    \/ ProbeLevelSucceeded

SpecProbe == ProbeInit /\ [][ProbeNext]_vars

\* Every step of the loop is eventually taken: each await of the loop (the call,
\* the delays) returns.
FairSpecProbe == ProbeInit /\ [][ProbeNext]_vars /\ WF_vars(ProbeNext)

(***************************************************************************)
(* Claims about runBenchmark                                               *)
(***************************************************************************)
\* C7: the capacity probe loop always halts: for every endpoint behaviour and every
\* start/max/increment configuration the loop exits after finitely many levels.
C7_ProbeHalts == <>(pc = "done")

\* C8: the probe never queries a wallet count below START_WALLET_COUNT: every
\* walletCount for which a call is issued, including the one chosen after a failed
\* level, is >= START_WALLET_COUNT.
C8_NeverBelowFloor == pc = "call" => walletCount >= START_WALLET_COUNT

\* C9: when a level fails and the increment is above the minimum resolution (10),
\* the loop goes on and the next level probed is lastSuccess + floor(increment / 5);
\* with floor 50 and increment 50, a failure at 250 after a success at 200 is
\* followed by a probe at 210.
C9_BacktrackToLastSuccessPlusFifth ==
    [][(pc = "eval" /\ bestResult = NoResult /\ WALLET_COUNT_INCREMENT > 10) =>
          /\ pc' = "while"
          /\ walletCount' = lastSuccessfulCount + (WALLET_COUNT_INCREMENT \div 5)
          /\ (walletCount = 250 /\ lastSuccessfulCount = 200
                /\ WALLET_COUNT_INCREMENT = 50) => walletCount' = 210]_vars

\* C9 witness: floor 50, increment 50, the level at 250 failed after the success at
\* 200, and the call of the next level is about to be issued at 210.
C9_Witness ==
    /\ START_WALLET_COUNT = 50 /\ WALLET_COUNT_INCREMENT = 50
    /\ lastLevel = [walletCount |-> 250, success |-> FALSE]
    /\ lastSuccessfulCount = 200
    /\ pc = "call" /\ walletCount = 210

C11_FailureAtMinResolutionEndsProbe ==
    [][/\ (pc = "eval" /\ bestResult = NoResult /\ WALLET_COUNT_INCREMENT <= 10) =>
             /\ pc' = "done"
             /\ lastSuccessfulCount' = lastSuccessfulCount
             /\ walletCount' = walletCount
       /\ pc = "done" => pc' = "done"]_vars

\* C11 witness: increment 10, the level at 10 succeeded, the level at 20 failed and
\* the probe is over with lastSuccessfulCount still 10.
C11_Witness ==
    /\ WALLET_COUNT_INCREMENT = 10
    /\ lastLevel = [walletCount |-> 20, success |-> FALSE]
    /\ lastSuccessfulCount = 10
    /\ pc = "done"

\* C31: after a level fails and the probe backtracks, the search continues at the
\* finer step floor(increment / 5): a success at a level reached by backtracking
\* (5010 = 5000 + 10 in the README's example, 210 = 200 + 10 here) is followed by a
\* probe one finer step further (5020, 220), and when the level one finer step above
\* the last success fails, the benchmark ends and reports that last success.
C31_SearchContinuesAtFinerStep ==
    [][/\ (pc = "eval" /\ bestResult # NoResult
             /\ lastLevel # <<>> /\ ~lastLevel.success) =>
                walletCount' = walletCount + (WALLET_COUNT_INCREMENT \div BacktrackDivisor)
       /\ (pc = "eval" /\ bestResult = NoResult /\ lastSuccessfulCount > 0
             /\ walletCount = lastSuccessfulCount + (WALLET_COUNT_INCREMENT \div BacktrackDivisor)) =>
                pc' = "done" /\ lastSuccessfulCount' = lastSuccessfulCount]_vars

\* C12: in every reachable state of runBenchmark lastSuccessfulCount is 0 or a wallet
\* count whose level succeeded, namely the largest one that succeeded so far, so the
\* count reported when the loop exits is the largest that succeeded during the run;
\* lastSuccessfulCount never decreases.
C12_LastSuccessIsLargestSucceeded ==
    /\ [](lastSuccessfulCount = maxSucceeded)
    /\ [][lastSuccessfulCount' >= lastSuccessfulCount]_vars

\* C12 witness: floor 50, increment 50, ceiling 300: the loop has exited reporting
\* 260, a count only reached by the successes at 210 and 260 that follow a backtrack.
C12_Witness ==
    /\ START_WALLET_COUNT = 50
    /\ pc = "done"
    /\ lastLevel = [walletCount |-> 260, success |-> TRUE]
    /\ lastSuccessfulCount = 260 /\ maxSucceeded = 260

\* C13: every remote call issued by runBenchmark appends exactly one record to
\* benchmarkResults, whatever its outcome, and the log is append-only: records are
\* only added at the end, and only by a call. (The model keeps the first logLimit
\* records, so the count is compared while the log is below that.)
C13_EveryCallAppendsOneRecord ==
    [][/\ (pc = "call" /\ Len(benchmarkResults) < logLimit) =>
             Len(benchmarkResults') = Len(benchmarkResults) + 1
       /\ Len(benchmarkResults') >= Len(benchmarkResults)
       /\ SubSeq(benchmarkResults', 1, Len(benchmarkResults)) = benchmarkResults
       /\ pc # "call" => benchmarkResults' = benchmarkResults]_vars

\* C14: at one wallet count, a tier whose calls all raise a transport fault is
\* called exactly RETRY_COUNT times, each failed call followed by the 1-second
\* delay, before the next tier is tried; a wallet count is declared failed only
\* after every tier has been called RETRY_COUNT times.
C14_FaultedTierCalledRetryCountTimes ==
    /\ [](pc = "delay" => timer = 1000)
    /\ []((pc = "eval" /\ bestResult = NoResult) =>
             /\ tier = Len(BATCH_SIZES)
             /\ levelStats.calls = Len(BATCH_SIZES) * RETRY_COUNT)
    /\ [][/\ (pc = "call" /\ tierStats'.faults = tierStats.faults + 1) => pc' = "delay"
          /\ (pc = "delay" /\ tierStats.faults = tierStats.calls) =>
                IF tierStats.calls < RETRY_COUNT
                THEN pc' = "call" /\ tier' = tier
                ELSE /\ tierStats.calls = RETRY_COUNT
                     /\ tierStats.delays + 1 = RETRY_COUNT
                     /\ tier' = tier + 1]_vars

\* C14 witness: RETRY_COUNT = 3 and every call of the level at 5 wallets raised a
\* fault: 15 calls were made before the level was declared failed.
C14_Witness ==
    /\ RETRY_COUNT = 3
    /\ pc = "done"
    /\ lastLevel = [walletCount |-> 5, success |-> FALSE]
    /\ levelStats = [calls |-> 15, partial |-> FALSE]

\* C15: a level is declared failed only when the calls of the level raised
\* transport faults: a call that returned with some sub-lookups reported as failed
\* is not a failed attempt and does not make the level fail.
C15_OnlyFaultsFailALevel ==
    (pc = "eval" /\ bestResult = NoResult) => ~levelStats.partial

(***************************************************************************)
(* wallet_balance_cli (unnamed/part_002): getOptimalBatchSize,             *)
(* fetchEthBalances, fetchTokenBalances and the part of main that calls    *)
(* them                                                                    *)
(***************************************************************************)
\* ---- bounds of the CLI model
MaxWallets == 2
MaxBalance == 1

\* A faulty variant of getOptimalBatchSize: the configured --batch-size is ignored.
GetOptimalBatchSizeAuto(nWallets, configured) ==
    IF nWallets < 500 THEN 1024
    ELSE IF nWallets < 1000 THEN 2048
    ELSE IF nWallets < 3000 THEN 4096
    ELSE 8192

\* function getOptimalBatchSize(walletCount), nWallets being its walletCount;
\* configured is the module's batchSize
GetOptimalBatchSize(nWallets, configured) ==
    IF configured > 0 THEN configured
    ELSE IF nWallets < 500 THEN 1024
    ELSE IF nWallets < 1000 THEN 2048
    ELSE IF nWallets < 3000 THEN 4096
    ELSE 8192

\* The values of --batch-size that pass the validation (not NaN, >= 0), and the
\* wallet counts getOptimalBatchSize is applied to: each threshold, its neighbours
\* and the extremes.
ArgBatchSizes == {0, 1, 2048, 16384}
WalletCounts == {0, 1, 499, 500, 501, 999, 1000, 2999, 3000, 10000}

\* One entry of the array client.multicall returns (allowFailure): the value on
\* success, an error and no result on failure.
MulticallSuccess(v) == [status |-> "success", result |-> v]
MulticallFailure == [status |-> "failure", error |-> "reverted"]
MulticallOutcomes == {MulticallSuccess(v) : v \in 0..MaxBalance} \cup {MulticallFailure}

\* wallets.map((address) => ({ ..., args: [address] }))
ContractsFor(wallets) == [i \in 1..Len(wallets) |-> [args |-> <<wallets[i]>>]]

\* client.multicall({contracts, ...}) when it returns: entry i answers contracts[i]
Multicall(contracts, ledger) == [i \in 1..Len(contracts) |-> ledger[contracts[i].args[1]]]

RECURSIVE SuccessfulOnly(_)
\* A faulty variant of BalancesOf: the failed entries are dropped from the list.
SuccessfulOnly(results) ==
    IF results = <<>> THEN <<>>
    ELSE IF Head(results).status = "success"
         THEN <<Head(results).result>> \o SuccessfulOnly(Tail(results))
         ELSE SuccessfulOnly(Tail(results))

\* results.map((result) => result.status === "success" ? result.result : 0n)
BalancesOf(results) ==
    [i \in 1..Len(results) |->
        IF results[i].status = "success" THEN results[i].result ELSE 0]

CliWallets == {[i \in 1..n |-> Derive(1, i - 1)] : n \in 0..MaxWallets}

\* ---- getOptimalBatchSize applied to wallet counts
BatchSizeInit ==
    /\ pc = "args"
    /\ argBatchSize \in ArgBatchSizes
    /\ sizeOf = <<>>
    /\ allWallets = <<>> /\ ethLedger = <<>> /\ tokenLedger = <<>>
    /\ ethBalances = <<>> /\ tokenData = <<>> /\ requestBatchSize = 0
    /\ PoolIdle /\ GenIdle /\ PawIdle /\ ProbeIdle /\ PartIdle /\ SeedIdle

CliGetOptimalBatchSize(n) ==
    /\ pc = "args"
    /\ n \notin DOMAIN sizeOf
    /\ sizeOf' = (n :> GetOptimalBatchSize(n, argBatchSize)) @@ sizeOf
    /\ UNCHANGED <<partVars, seedVars, pc, poolVars, genVars, pawVars, probeVars, argBatchSize, allWallets,
                   ethLedger, tokenLedger, ethBalances, tokenData, requestBatchSize>>

BatchSizeNext == \E n \in WalletCounts : CliGetOptimalBatchSize(n)

SpecBatchSize == BatchSizeInit /\ [][BatchSizeNext]_vars

\* ---- main: the ETH balances, then the balances of one token
FetchInit ==
    /\ pc = "fetchEth"
    /\ argBatchSize \in ArgBatchSizes
    /\ allWallets \in CliWallets
    /\ ethLedger \in [{Derive(1, i) : i \in 0..(MaxWallets - 1)} -> MulticallOutcomes]
    /\ tokenLedger \in [{Derive(1, i) : i \in 0..(MaxWallets - 1)} -> MulticallOutcomes]
    /\ ethBalances = <<>>
    /\ tokenData = <<>>
    /\ requestBatchSize = 0
    /\ sizeOf = <<>>
    /\ PoolIdle /\ GenIdle /\ PawIdle /\ ProbeIdle /\ PartIdle /\ SeedIdle

\* ethBalances = await fetchEthBalances(allWallets), the multicall returning
CliFetchEthBalances ==
    /\ pc = "fetchEth"
    /\ requestBatchSize' = GetOptimalBatchSize(Len(allWallets), argBatchSize)
    /\ ethBalances' = BalancesOf(Multicall(ContractsFor(allWallets), ethLedger))
    /\ pc' = "fetchToken"
    /\ UNCHANGED <<partVars, seedVars, poolVars, genVars, pawVars, probeVars, argBatchSize, allWallets,
                   ethLedger, tokenLedger, tokenData, sizeOf>>

\* fetchEthBalances throws (the multicall failed as a whole): Deno.exit(1)
CliFetchEthThrows ==
    /\ pc = "fetchEth"
    /\ requestBatchSize' = GetOptimalBatchSize(Len(allWallets), argBatchSize)
    /\ pc' = "exit"
    /\ UNCHANGED <<partVars, seedVars, poolVars, genVars, pawVars, probeVars, argBatchSize, allWallets,
                   ethLedger, tokenLedger, ethBalances, tokenData, sizeOf>>

\* balances = await fetchTokenBalances(allWallets, address, decimals), the
\* multicall returning; tokenData.push({..., balances})
CliFetchTokenBalances ==
    /\ pc = "fetchToken"
    /\ requestBatchSize' = GetOptimalBatchSize(Len(allWallets), argBatchSize)
    /\ tokenData' = Append(tokenData,
          [balances |-> BalancesOf(Multicall(ContractsFor(allWallets), tokenLedger))])
    /\ pc' = "report"
    /\ UNCHANGED <<partVars, seedVars, poolVars, genVars, pawVars, probeVars, argBatchSize, allWallets,
                   ethLedger, tokenLedger, ethBalances, sizeOf>>

\* fetchTokenBalances throws: the token is skipped ("Continuing with other tokens")
CliFetchTokenThrows ==
    /\ pc = "fetchToken"
    /\ requestBatchSize' = GetOptimalBatchSize(Len(allWallets), argBatchSize)
    /\ pc' = "report"
    /\ UNCHANGED <<partVars, seedVars, poolVars, genVars, pawVars, probeVars, argBatchSize, allWallets,
                   ethLedger, tokenLedger, ethBalances, tokenData, sizeOf>>

FetchNext ==
    \/ CliFetchEthBalances
    \/ CliFetchEthThrows
    \/ CliFetchTokenBalances
    \/ CliFetchTokenThrows

SpecFetch == FetchInit /\ [][FetchNext]_vars

(***************************************************************************)
(* Claims about the balance CLI                                            *)
(***************************************************************************)
\* C16: fetchEthBalances and fetchTokenBalances return a list of the same length
\* and order as the input wallet list: position i holds the balance the endpoint
\* returned for wallet i, or zero when that wallet's sub-lookup was reported failed
\* inside the multicall, whatever the other positions' outcomes.
C16_BalancesAlignedWithWallets ==
    LET Aligned(balances, ledger) ==
            /\ Len(balances) = Len(allWallets)
            /\ \A i \in 1..Len(allWallets) :
                  balances[i] = IF ledger[allWallets[i]].status = "failure" THEN 0
                                ELSE ledger[allWallets[i]].result
    IN /\ pc \in {"fetchToken", "report"} => Aligned(ethBalances, ethLedger)
       /\ \A t \in 1..Len(tokenData) : Aligned(tokenData[t].balances, tokenLedger)

\* C16 witness: two wallets; the ETH lookup of the first and the token lookup of the
\* second are reported failed, the other two return 1.
C16_Witness ==
    /\ pc = "report"
    /\ Len(allWallets) = 2
    /\ ethLedger[allWallets[1]].status = "failure"
    /\ tokenLedger[allWallets[2]].status = "failure"
    /\ ethBalances = <<0, 1>>
    /\ Len(tokenData) = 1 /\ tokenData[1].balances = <<1, 0>>

\* C17: getOptimalBatchSize is monotonically non-decreasing in the wallet count:
\* 1024 below 500 wallets, 2048 below 1000, 4096 below 3000, 8192 from 3000 up; with
\* an explicit --batch-size > 0 it returns that value for every wallet count.
C17_BatchSizeMonotoneOrConfigured ==
    /\ \A a, b \in DOMAIN sizeOf : a <= b => sizeOf[a] <= sizeOf[b]
    /\ \A n \in DOMAIN sizeOf :
          sizeOf[n] = IF argBatchSize > 0 THEN argBatchSize
                      ELSE CASE n < 500 -> 1024
                             [] n >= 500 /\ n < 1000 -> 2048
                             [] n >= 1000 /\ n < 3000 -> 4096
                             [] n >= 3000 -> 8192

\* C17 witness: with --batch-size 2048 configured, getOptimalBatchSize was applied to
\* every wallet count of WalletCounts, 0 and 10000 included, and returned 2048.
C17_Witness ==
    /\ argBatchSize = 2048
    /\ DOMAIN sizeOf = WalletCounts
    /\ sizeOf[0] = 2048 /\ sizeOf[10000] = 2048

(***************************************************************************)
(* The two pools together: a run of generateWalletsParallel or a run of    *)
(* processAddressesWithWorkers                                             *)
(***************************************************************************)
PoolsInit == GenInit \/ PawInit

PoolsNext ==
    \/ workerCount > 0 /\ GenNext
    \/ concurrency > 0 /\ PawNext

SpecPools == PoolsInit /\ [][PoolsNext]_vars

\* Batches worker w has been given and whose result has not been handled to the
\* end: queued for the worker, answered but not yet delivered, or in a handler
\* suspended on its writes.
InFlight(w) ==
    Len(inbox[w]) + Len(outbox[w]) + Cardinality({h \in awaiting : h.worker = w})

\* C18: in both pools a worker never has more than one batch outstanding: a batch
\* is posted to a worker only in the initial assignment (at most one per worker) or
\* while the result of that same worker's previous batch is being handled.
C18_OneBatchPerWorker ==
    /\ [](\A w \in DOMAIN inbox : InFlight(w) <= 1)
    /\ [][\A w \in DOMAIN inbox :
            Len(inbox'[w]) > Len(inbox[w]) =>
               \/ pc = "start" /\ Len(inbox'[w]) = 1
               \/ Len(outbox'[w]) < Len(outbox[w])
               \/ \E h \in awaiting \ awaiting' : h.worker = w]_vars

\* C18 witness: processAddressesWithWorkers with two workers, one of which holds a
\* batch that was not part of the initial assignment.
C18_Witness ==
    /\ concurrency = 2
    /\ \E w \in DOMAIN inbox :
          /\ inbox[w] # <<>>
          /\ Head(inbox[w]).startIndex >= concurrency * batchSize
          /\ InFlight(w) = 1

\* C19: in processAddressesWithWorkers, by the time the promise settles (on full
\* success, on the error-result path or through worker.onerror) every worker has
\* been terminated, and terminate() is called on each worker exactly once.
C19_SettledMeansAllTerminatedOnce ==
    /\ \A w \in DOMAIN terminated : terminated[w] <= 1
    /\ settled # "pending" => \A w \in DOMAIN terminated : terminated[w] = 1

\* C20: a batch for which a worker returned an error result is never posted to any
\* worker again, in processAddressesWithWorkers and in generateWalletsParallel.
C20_FailedBatchNeverReposted ==
    [][\A k \in failed' : posted'[k] = posted[k]]_vars

\* C20 witness: processAddressesWithWorkers, four batches on two workers: batch 0
\* returned an error, and afterwards batch 3 was posted; batch 0 was posted once.
C20_Witness ==
    /\ concurrency = 2
    /\ failed = {0}
    /\ DOMAIN posted = 0..3
    /\ posted[0] = 1 /\ posted[2] = 0 /\ posted[3] = 1

(***************************************************************************)
(* The construction of the batch list: generateWalletsParallel, and        *)
(* seedWalletsParallel followed by processAddressesWithWorkers             *)
(***************************************************************************)
\* ---- bounds of the partition model
MaxTotal == 12
MaxOption == 5

\* const batchSize = options.batchSize || 100
DefaultBatchSize == 100

\* options.batchSize || 100: 0 is falsy, as a missing option is; a negative
\* number is truthy
BatchSizeOption(opt) == IF opt = 0 THEN DefaultBatchSize ELSE opt

\* A faulty variant of GenBatchEnd: the end of the last batch is not clamped.
GenBatchEndUnclamped(i, bs, n) == i + bs - 1

\* const end = Math.min(i + batchSize - 1, count - 1)
GenBatchEnd(i, bs, n) == Min(i + bs - 1, n - 1)

\* const end = Math.min(i + batchSize - 1, maxAddressIndex)
PoolBatchEnd(i, bs, maxIdx) == Min(i + bs - 1, maxIdx)

\* The number of addresses asked for: count, or the indices 0..maxAddressIndex.
Total == IF fn = "generateWalletsParallel" THEN count ELSE maxAddressIndex + 1

\* The (total, options.batchSize) pairs explored: every small pair, with the batch
\* size left out (0), negative, below, equal to and above the total, and 250
\* addresses in batches of 100, asked for explicitly and by default.
PartitionInputs ==
    {[total |-> t, opt |-> o] : t \in 0..MaxTotal, o \in {-1} \cup 0..MaxOption}
        \cup {[total |-> 250, opt |-> 100], [total |-> 250, opt |-> 0]}

PartInit ==
    /\ pc = "options"
    /\ fn \in {"generateWalletsParallel", "seedWalletsParallel"}
    /\ \E c \in PartitionInputs :
          /\ optBatchSize = c.opt
          /\ IF fn = "generateWalletsParallel"
             THEN count = c.total /\ maxAddressIndex = 0
             ELSE count = 0 /\ maxAddressIndex = c.total - 1 /\ c.total >= 1
    /\ loopIndex = 0
    /\ batchList = <<>>
    /\ seedPhrase = 0 /\ workerCount = 0 /\ addresses = <<>> /\ completedBatches = 0
    /\ seedIndex = 0 /\ mnemonic = 0 /\ concurrency = 0
    /\ processedCount = 0 /\ pendingBatches = 0
    /\ kv = <<>> /\ kvWrites = <<>> /\ awaiting = {}
    /\ PoolIdle /\ ProbeIdle /\ CliIdle /\ SeedIdle

\* const batchSize = options.batchSize || 100; const batches = []; let i = 0
PartOptions ==
    /\ pc = "options"
    /\ batchSize' = BatchSizeOption(optBatchSize)
    /\ loopIndex' = 0
    /\ batchList' = <<>>
    /\ pc' = "loop"
    /\ UNCHANGED <<inbox, outbox, terminated, crashed, posted, answered, failed, settled,
                   resolveValue, progress, genVars, pawVars, probeVars, cliVars, fn, optBatchSize,
                   seedVars>>

\* generateWalletsParallel: one round of `for (let i = 0; i < count; i += batchSize)`.
\* The list is not grown past MaxTotal + 1 batches.
PartGenStep ==
    /\ pc = "loop"
    /\ fn = "generateWalletsParallel"
    /\ loopIndex < count
    /\ Len(batchList) <= MaxTotal
    /\ batchList' = Append(batchList,
          [start |-> loopIndex, end |-> GenBatchEnd(loopIndex, batchSize, count)])
    /\ loopIndex' = loopIndex + batchSize
    /\ UNCHANGED <<pc, poolVars, genVars, pawVars, probeVars, cliVars, fn, optBatchSize,
                   seedVars>>

\* generateWalletsParallel: the loop condition i < count fails
PartGenDone ==
    /\ pc = "loop"
    /\ fn = "generateWalletsParallel"
    /\ ~(loopIndex < count)
    /\ pc' = "partitioned"
    /\ UNCHANGED <<poolVars, genVars, pawVars, probeVars, cliVars, partVars, seedVars>>

\* processAddressesWithWorkers: one round of
\* `for (let i = 0; i <= maxAddressIndex; i += batchSize)`
PartPoolStep ==
    /\ pc = "loop"
    /\ fn = "seedWalletsParallel"
    /\ loopIndex <= maxAddressIndex
    /\ Len(batchList) <= MaxTotal
    /\ batchList' = Append(batchList,
          [start |-> loopIndex, end |-> PoolBatchEnd(loopIndex, batchSize, maxAddressIndex)])
    /\ loopIndex' = loopIndex + batchSize
    /\ UNCHANGED <<pc, poolVars, genVars, pawVars, probeVars, cliVars, fn, optBatchSize,
                   seedVars>>

\* processAddressesWithWorkers: the loop condition i <= maxAddressIndex fails
PartPoolDone ==
    /\ pc = "loop"
    /\ fn = "seedWalletsParallel"
    /\ ~(loopIndex <= maxAddressIndex)
    /\ pc' = "partitioned"
    /\ UNCHANGED <<poolVars, genVars, pawVars, probeVars, cliVars, partVars, seedVars>>

PartNext ==
    \/ PartOptions
    \/ PartGenStep
    \/ PartGenDone
    \/ PartPoolStep
    \/ PartPoolDone

SpecPartition == PartInit /\ [][PartNext]_vars

(***************************************************************************)
(* Claims about the batch list                                             *)
(***************************************************************************)
\* C21: for every total >= 1 and every batchSize > 0 the batch list built by the
\* pools is in ascending order, its ranges are pairwise disjoint and their union is
\* exactly 0..total-1 (every index lies in exactly one batch), every batch but the
\* last has exactly batchSize indices and the last has between 1 and batchSize;
\* 250 addresses in batches of 100 give [0,99], [100,199], [200,249]. The list is
\* the one the operators Batches and PoolBatches compute.
C21_BatchListPartitionsRange ==
    (pc = "partitioned" /\ Total >= 1 /\ batchSize > 0) =>
        LET n == Len(batchList)
            SizeOf(k) == batchList[k].end - batchList[k].start + 1
        IN /\ n >= 1
           /\ \A k \in 1..n : batchList[k].start >= 0 /\ batchList[k].end <= Total - 1
           /\ \A k \in 1..(n - 1) : batchList[k].start < batchList[k + 1].start
           /\ \A x \in 0..(Total - 1) :
                 Cardinality({k \in 1..n : batchList[k].start <= x /\ x <= batchList[k].end}) = 1
           /\ \A k \in 1..(n - 1) : SizeOf(k) = batchSize
           /\ SizeOf(n) >= 1 /\ SizeOf(n) <= batchSize
           /\ (Total = 250 /\ batchSize = 100) =>
                 batchList = <<[start |-> 0, end |-> 99], [start |-> 100, end |-> 199],
                               [start |-> 200, end |-> 249]>>
           /\ batchList = IF fn = "generateWalletsParallel"
                          THEN Batches(count, batchSize)
                          ELSE PoolBatches(maxAddressIndex, batchSize)

\* C21 witness: generateWalletsParallel asked for 250 addresses in batches of 100 has
\* built its three batches, the last one shorter.
C21_Witness ==
    /\ pc = "partitioned"
    /\ fn = "generateWalletsParallel" /\ count = 250 /\ optBatchSize = 100
    /\ batchList = <<[start |-> 0, end |-> 99], [start |-> 100, end |-> 199],
                     [start |-> 200, end |-> 249]>>

\* C22: a batch size of 0 or a negative batch size given to seedWalletsParallel or
\* generateWalletsParallel is rejected: no batch is created for it, and the
\* construction of the batch list is never completed with it.
C22_NonPositiveBatchSizeRejected ==
    (fn # "" /\ optBatchSize <= 0) => (batchList = <<>> /\ pc # "partitioned")

(***************************************************************************)
(* seed_wallets.ts (unnamed/part_006): getSeedPhrasesFromEnv               *)
(***************************************************************************)
\* ---- bounds of the seed models
MaxSeeds == 3
MaxIndex == 1
MaxThrows == 1

\* const SEED_PHRASE_PREFIX = "SEED_PHRASE_"
SEED_PHRASE_PREFIX == "SEED_PHRASE_"

\* `${SEED_PHRASE_PREFIX}${i}`
SeedKey(i) == SEED_PHRASE_PREFIX \o ToString(i)

\* A string value is the sequence of its characters; Undefined is what env[key]
\* gives for a key the object does not have.
Undefined == <<"undefined">>
EmptyString == <<>>

\* env[key]
Lookup(e, key) == IF key \in DOMAIN e THEN e[key] ELSE Undefined

\* A faulty variant of Truthy: only a missing variable ends the scan.
TruthyDefined(v) == v # Undefined

\* if (phrase): undefined and the empty string are falsy
Truthy(v) == v # Undefined /\ v # EmptyString

RECURSIVE SeedPhrasesFrom(_, _)
\* let i = 1; while (true) { phrase = env[key]; if (phrase) { push; i++ } else break }
SeedPhrasesFrom(e, i) ==
    LET phrase == Lookup(e, SeedKey(i))
    IN IF Truthy(phrase)
       THEN <<[index |-> i, phrase |-> phrase]>> \o SeedPhrasesFrom(e, i + 1)
       ELSE <<>>

\* A faulty variant of GetSeedPhrasesFromEnv: every SEED_PHRASE_n that is set is
\* returned, whether or not the ones before it are.
GetSeedPhrasesSkippingGaps(e) ==
    SelectSeq([n \in 1..(MaxSeeds + 1) |-> [index |-> n, phrase |-> Lookup(e, SeedKey(n))]],
              LAMBDA entry : Truthy(entry.phrase))

GetSeedPhrasesFromEnv(e) == SeedPhrasesFrom(e, 1)

\* The word of the phrases given to seed n, one letter long.
Letter(n) == <<"a", "b", "c", "d", "e", "f">>[n]

RECURSIVE Words(_, _)
\* The phrase of n words c separated by single spaces.
Words(n, c) ==
    IF n = 0 THEN EmptyString
    ELSE IF n = 1 THEN <<c>>
    ELSE <<c, " ">> \o Words(n - 1, c)

\* mnemonic.split(" ").length < 12
MinWords == 12

\* The values SEED_PHRASE_n takes: a phrase of 12 words, one of 11 words, the empty
\* string.
ValidPhrase(n) == Words(MinWords, Letter(n))
ShortPhrase(n) == Words(MinWords - 1, Letter(n))

\* Variables of the environment that are not seed phrases, one of them with the
\* prefix and a suffix that is not a number written as the scan writes it.
UnrelatedEnv ==
    ("RPC_URL" :> <<"u">>) @@ ("SEED_PHRASE_01" :> ValidPhrase(1))
        @@ ("SEED_PHRASE_0" :> ValidPhrase(2)) @@ ("SEED_PHRASE_" :> ValidPhrase(3))

\* The environment in which SEED_PHRASE_n is set for the n of DOMAIN values.
SeedEnv(values) == [key \in {SeedKey(n) : n \in DOMAIN values} |->
                       values[CHOOSE n \in DOMAIN values : SeedKey(n) = key]]

\* The value of SEED_PHRASE_n of each kind.
PhraseOfKind(n, kind) ==
    CASE kind = "empty" -> EmptyString
      [] kind = "short" -> ShortPhrase(n)
      [] kind = "valid" -> ValidPhrase(n)

\* The environments in which each of SEED_PHRASE_1 .. SEED_PHRASE_last is missing or
\* of one of the kinds.
EnvsOfKinds(last, kinds) ==
    {SeedEnv([n \in DOMAIN k |-> PhraseOfKind(n, k[n])]) :
        k \in UNION {[ns -> kinds] : ns \in SUBSET (1..last)}}

\* The environments of the scan: each of SEED_PHRASE_1 .. SEED_PHRASE_(MaxSeeds + 1)
\* missing, empty, short or valid, with and without the unrelated variables.
SourceEnvs ==
    LET envs == EnvsOfKinds(MaxSeeds + 1, {"empty", "short", "valid"})
    IN envs \cup {e @@ UnrelatedEnv : e \in envs}

SourceInit ==
    /\ pc = "scan"
    /\ env \in SourceEnvs
    /\ seedPhrases = <<>> /\ seedPos = 0
    /\ addressIndex = 0 /\ storedCount = 0 /\ run = 0
    /\ kvLog = <<>> /\ threw = <<>> /\ kvAfterFirst = <<>> /\ workersCreated = 0
    /\ PoolIdle /\ GenIdle /\ PawIdle /\ ProbeIdle /\ CliIdle /\ PartIdle

\* const seedPhrases = getSeedPhrasesFromEnv(env)
SourceScan ==
    /\ pc = "scan"
    /\ seedPhrases' = GetSeedPhrasesFromEnv(env)
    /\ pc' = "scanned"
    /\ UNCHANGED <<poolVars, genVars, pawVars, probeVars, cliVars, partVars, env, seedPos,
                   addressIndex, storedCount, run, kvLog, threw, kvAfterFirst,
                   workersCreated>>

SourceNext == SourceScan

SpecSeedSource == SourceInit /\ [][SourceNext]_vars

(***************************************************************************)
(* Claims about getSeedPhrasesFromEnv                                      *)
(***************************************************************************)
\* SEED_PHRASE_n is present in the environment and not empty.
SeedPresent(n) == SeedKey(n) \in DOMAIN env /\ env[SeedKey(n)] # EmptyString

\* C25: getSeedPhrasesFromEnv returns the entries for SEED_PHRASE_1..SEED_PHRASE_k
\* in ascending order with index = suffix, where k is the largest number such that
\* SEED_PHRASE_1 through SEED_PHRASE_k are all present and non-empty; variables
\* after the first gap are ignored, unrelated variables have no effect, and the
\* result is empty when SEED_PHRASE_1 is missing.
C25_SeedScanStopsAtFirstGap ==
    pc = "scanned" =>
        LET k == CHOOSE j \in 0..(MaxSeeds + 1) :
                    /\ \A n \in 1..j : SeedPresent(n)
                    /\ ~SeedPresent(j + 1)
        IN /\ seedPhrases = [n \in 1..k |-> [index |-> n, phrase |-> env[SeedKey(n)]]]
           /\ ~SeedPresent(1) => seedPhrases = <<>>

\* C25 witness: SEED_PHRASE_1 and SEED_PHRASE_2 are set, SEED_PHRASE_3 is empty and
\* SEED_PHRASE_4 is set, among unrelated variables: the scan returned the first two.
C25_Witness ==
    /\ pc = "scanned"
    /\ "RPC_URL" \in DOMAIN env /\ "SEED_PHRASE_0" \in DOMAIN env
    /\ SeedKey(3) \in DOMAIN env /\ env[SeedKey(3)] = EmptyString
    /\ SeedKey(4) \in DOMAIN env /\ env[SeedKey(4)] = ValidPhrase(4)
    /\ seedPhrases = <<[index |-> 1, phrase |-> ValidPhrase(1)],
                       [index |-> 2, phrase |-> ShortPhrase(2)]>>

(***************************************************************************)
(* seed_wallets.ts (unnamed/part_006): seedWallets, and the loop over the  *)
(* seed phrases of seedWalletsParallel (unnamed/part_000)                  *)
(***************************************************************************)
\* const DEFAULT_CONCURRENCY = 4
DEFAULT_CONCURRENCY == 4

RECURSIVE SplitFrom(_, _)
\* s.split(" "): the pieces between single spaces, acc being the piece that is read
SplitFrom(s, acc) ==
    IF s = <<>> THEN <<acc>>
    ELSE IF Head(s) = " " THEN <<acc>> \o SplitFrom(Tail(s), <<>>)
    ELSE SplitFrom(Tail(s), Append(acc, Head(s)))

Split(s) == SplitFrom(s, <<>>)

\* A faulty variant of LooksTooShort: the length check is missing.
LooksTooShortNever(m) == FALSE

\* if (mnemonic.split(" ").length < 12)
LooksTooShort(m) == Len(Split(m)) < MinWords

\* if (seedPhrases.length === 0) return
NoSeeds(phrases) == Len(phrases) = 0

\* A faulty variant of MoreAddresses: the last index is left out.
MoreAddressesStrict(i, maxIdx) == i < maxIdx

\* addressIndex <= options.maxAddressIndex
MoreAddresses(i, maxIdx) == i <= maxIdx

\* A faulty variant of AfterCatch: the error ends the loop over the seed phrases.
AfterCatchAbort(pos, n) == n + 1

\* `continue` of the catch block: on to the next of the n seed phrases
AfterCatch(pos, n) == pos + 1

\* A faulty variant of SeedKvSet: a key that is written again gets a new value.
SeedKvSetVersioned(store, key, address) ==
    IF key \in DOMAIN store THEN (key :> <<"rewritten", address>>) @@ store
    ELSE (key :> address) @@ store

\* await kv.set(kvKey, address)
SeedKvSet(store, key, address) == (key :> address) @@ store

\* The environments of the seeding runs: each of SEED_PHRASE_1 .. SEED_PHRASE_MaxSeeds
\* missing, short or valid, among the unrelated variables.
SeedEnvs == {e @@ UnrelatedEnv : e \in EnvsOfKinds(MaxSeeds, {"short", "valid"})}

\* What no action of the seeding runs changes.
seedFrame == <<inbox, outbox, terminated, crashed, posted, answered, failed, settled,
               resolveValue, progress, genVars, probeVars, cliVars, optBatchSize, loopIndex,
               batchList,
               fn, env, maxAddressIndex, processedCount, pendingBatches, awaiting>>

SeedsInit ==
    /\ pc = "begin"
    /\ fn \in {"seedWallets", "seedWalletsParallel"}
    /\ env \in SeedEnvs
    /\ maxAddressIndex \in 0..MaxIndex
    /\ seedPhrases = <<>> /\ seedPos = 0
    /\ seedIndex = 0 /\ mnemonic = EmptyString
    /\ addressIndex = 0 /\ storedCount = 0
    /\ run = 1
    /\ kv = <<>> /\ kvWrites = <<>> /\ kvLog = <<>>
    /\ threw = <<>> /\ kvAfterFirst = <<>> /\ workersCreated = 0
    /\ concurrency = 0 /\ processedCount = 0 /\ pendingBatches = 0 /\ awaiting = {}
    /\ optBatchSize = 0 /\ loopIndex = 0 /\ batchList = <<>>
    /\ PoolIdle /\ GenIdle /\ ProbeIdle /\ CliIdle

\* const seedPhrases = getSeedPhrasesFromEnv(env); if (seedPhrases.length === 0)
\* return; seedWalletsParallel then takes the defaults of concurrency and batchSize
SeedsGetPhrases ==
    /\ pc = "begin"
    /\ seedPhrases' = GetSeedPhrasesFromEnv(env)
    /\ IF NoSeeds(seedPhrases')
       THEN /\ pc' = "done"
            /\ kvAfterFirst' = IF run = 1 THEN kv ELSE kvAfterFirst
            /\ UNCHANGED <<seedPos, concurrency, batchSize>>
       ELSE /\ pc' = "seed"
            /\ seedPos' = 1
            /\ concurrency' = IF fn = "seedWalletsParallel" THEN DEFAULT_CONCURRENCY ELSE concurrency
            /\ batchSize' = IF fn = "seedWalletsParallel" THEN DefaultBatchSize ELSE batchSize
            /\ UNCHANGED kvAfterFirst
    /\ UNCHANGED <<seedFrame, seedIndex, mnemonic, kv, kvWrites, addressIndex, storedCount,
                   run, kvLog, threw, workersCreated>>

\* seedWallets: the next seed phrase looks too short: warning, continue
SeqSeedSkip ==
    /\ pc = "seed"
    /\ fn = "seedWallets"
    /\ seedPos <= Len(seedPhrases)
    /\ LooksTooShort(seedPhrases[seedPos].phrase)
    /\ seedIndex' = seedPhrases[seedPos].index
    /\ mnemonic' = seedPhrases[seedPos].phrase
    /\ storedCount' = 0
    /\ seedPos' = seedPos + 1
    /\ UNCHANGED <<pc, seedFrame, batchSize, concurrency, kv, kvWrites, seedPhrases,
                   addressIndex, run, kvLog, threw, kvAfterFirst, workersCreated>>

\* seedWallets: the next seed phrase passes the check: let storedCount = 0, and the
\* loop over the address indices starts
SeqSeedBegin ==
    /\ pc = "seed"
    /\ fn = "seedWallets"
    /\ seedPos <= Len(seedPhrases)
    /\ ~LooksTooShort(seedPhrases[seedPos].phrase)
    /\ seedIndex' = seedPhrases[seedPos].index
    /\ mnemonic' = seedPhrases[seedPos].phrase
    /\ storedCount' = 0
    /\ addressIndex' = 0
    /\ pc' = "address"
    /\ UNCHANGED <<seedFrame, batchSize, concurrency, kv, kvWrites, seedPhrases, seedPos,
                   run, kvLog, threw, kvAfterFirst, workersCreated>>

\* seedWallets: one round of the address loop: derive, await kv.set, storedCount++
SeqStore ==
    /\ pc = "address"
    /\ MoreAddresses(addressIndex, maxAddressIndex)
    /\ LET kvKey == KvKey(seedIndex, addressIndex)
       IN /\ kv' = SeedKvSet(kv, kvKey, Derive(mnemonic, addressIndex))
          /\ kvWrites' = CountWrite(kvWrites, kvKey)
          /\ kvLog' = Append(kvLog, kvKey)
    /\ storedCount' = storedCount + 1
    /\ addressIndex' = addressIndex + 1
    /\ UNCHANGED <<pc, seedFrame, batchSize, concurrency, seedIndex, mnemonic, seedPhrases,
                   seedPos, run, threw, kvAfterFirst, workersCreated>>

\* seedWallets: mnemonicToAccount or kv.set throws in a round of the address loop;
\* the catch block logs and continues with the next seed phrase. At most MaxThrows
\* calls throw.
SeqThrow ==
    /\ pc = "address"
    /\ MoreAddresses(addressIndex, maxAddressIndex)
    /\ Cardinality(DOMAIN threw) < MaxThrows
    /\ threw' = (<<run, seedIndex>> :> addressIndex) @@ threw
    /\ seedPos' = AfterCatch(seedPos, Len(seedPhrases))
    /\ pc' = "seed"
    /\ UNCHANGED <<seedFrame, batchSize, concurrency, seedIndex, mnemonic, kv, kvWrites,
                   seedPhrases, addressIndex, storedCount, run, kvLog, kvAfterFirst,
                   workersCreated>>

\* seedWallets: the address loop is over: on to the next seed phrase
SeqSeedEnd ==
    /\ pc = "address"
    /\ ~MoreAddresses(addressIndex, maxAddressIndex)
    /\ seedPos' = seedPos + 1
    /\ pc' = "seed"
    /\ UNCHANGED <<seedFrame, batchSize, concurrency, seedIndex, mnemonic, kv, kvWrites,
                   seedPhrases, addressIndex, storedCount, run, kvLog, threw, kvAfterFirst,
                   workersCreated>>

\* the loop over the seed phrases is over: the function returns
SeedsLoopEnd ==
    /\ pc = "seed"
    /\ seedPos > Len(seedPhrases)
    /\ pc' = "done"
    /\ kvAfterFirst' = IF run = 1 THEN kv ELSE kvAfterFirst
    /\ UNCHANGED <<seedFrame, batchSize, concurrency, seedIndex, mnemonic, kv, kvWrites,
                   seedPhrases, seedPos, addressIndex, storedCount, run, kvLog, threw,
                   workersCreated>>

\* seedWallets is called a second time with the same store, options and environment
SeqRunAgain ==
    /\ pc = "done"
    /\ fn = "seedWallets"
    /\ run = 1
    /\ run' = 2
    /\ pc' = "begin"
    /\ seedPhrases' = <<>> /\ seedPos' = 0
    /\ seedIndex' = 0 /\ mnemonic' = EmptyString
    /\ addressIndex' = 0 /\ storedCount' = 0
    /\ UNCHANGED <<seedFrame, batchSize, concurrency, kv, kvWrites, kvLog, threw,
                   kvAfterFirst, workersCreated>>

\* seedWalletsParallel: the next seed phrase looks too short: warning, continue
ParSeedSkip ==
    /\ pc = "seed"
    /\ fn = "seedWalletsParallel"
    /\ seedPos <= Len(seedPhrases)
    /\ LooksTooShort(seedPhrases[seedPos].phrase)
    /\ seedIndex' = seedPhrases[seedPos].index
    /\ mnemonic' = seedPhrases[seedPos].phrase
    /\ seedPos' = seedPos + 1
    /\ UNCHANGED <<pc, seedFrame, batchSize, concurrency, kv, kvWrites, seedPhrases,
                   addressIndex, storedCount, run, kvLog, threw, kvAfterFirst,
                   workersCreated>>

\* The store after the addresses of the indices idxs of seed s were written.
StoreIndices(store, s, m, idxs) ==
    [key \in DOMAIN store \cup {KvKey(s, i) : i \in idxs} |->
        IF key[2] = s /\ key[3] \in idxs THEN Derive(m, key[3]) ELSE store[key]]

CountWrites(writes, s, idxs) ==
    [key \in DOMAIN writes \cup {KvKey(s, i) : i \in idxs} |->
        (IF key \in DOMAIN writes THEN writes[key] ELSE 0)
            + (IF key[2] = s /\ key[3] \in idxs THEN 1 ELSE 0)]

\* The keys of seed s for the indices idxs, in ascending order of index.
KeysOf(s, idxs, maxIdx) ==
    SelectSeq([k \in 1..(maxIdx + 1) |-> KvKey(s, k - 1)], LAMBDA key : key[3] \in idxs)

\* seedWalletsParallel: the next seed phrase passes the check and
\* `await processAddressesWithWorkers(...)` settles. The call is summarised by what
\* it leaves behind: `concurrency` workers were created, and the addresses of a set
\* of indices were stored, all of 0..maxAddressIndex when no batch failed and no
\* worker died, any other subset otherwise. A rejection is caught and the loop
\* continues, as it does after the promise resolves. At most MaxThrows calls fail.
ParSeedCall ==
    /\ pc = "seed"
    /\ fn = "seedWalletsParallel"
    /\ seedPos <= Len(seedPhrases)
    /\ ~LooksTooShort(seedPhrases[seedPos].phrase)
    /\ seedIndex' = seedPhrases[seedPos].index
    /\ mnemonic' = seedPhrases[seedPos].phrase
    /\ workersCreated' = workersCreated + concurrency
    /\ \E stored \in SUBSET (0..maxAddressIndex) :
          /\ stored # 0..maxAddressIndex => Cardinality(DOMAIN threw) < MaxThrows
          /\ threw' = IF stored # 0..maxAddressIndex
                      THEN (<<run, seedIndex'>> :> -1) @@ threw ELSE threw
          /\ kv' = StoreIndices(kv, seedIndex', mnemonic', stored)
          /\ kvWrites' = CountWrites(kvWrites, seedIndex', stored)
          /\ kvLog' = kvLog \o KeysOf(seedIndex', stored, maxAddressIndex)
    /\ seedPos' = seedPos + 1
    /\ UNCHANGED <<pc, seedFrame, batchSize, concurrency, seedPhrases, addressIndex,
                   storedCount, run, kvAfterFirst>>

\* seedWalletsParallel: the promise of processAddressesWithWorkers never settles (a
\* failed batch can leave it pending): the loop stays suspended at the await
ParSeedCallHangs ==
    /\ pc = "seed"
    /\ fn = "seedWalletsParallel"
    /\ seedPos <= Len(seedPhrases)
    /\ ~LooksTooShort(seedPhrases[seedPos].phrase)
    /\ Cardinality(DOMAIN threw) < MaxThrows
    /\ seedIndex' = seedPhrases[seedPos].index
    /\ mnemonic' = seedPhrases[seedPos].phrase
    /\ workersCreated' = workersCreated + concurrency
    /\ threw' = (<<run, seedIndex'>> :> -1) @@ threw
    /\ \E stored \in (SUBSET (0..maxAddressIndex)) \ {0..maxAddressIndex} :
          /\ kv' = StoreIndices(kv, seedIndex', mnemonic', stored)
          /\ kvWrites' = CountWrites(kvWrites, seedIndex', stored)
          /\ kvLog' = kvLog \o KeysOf(seedIndex', stored, maxAddressIndex)
    /\ pc' = "hung"
    /\ UNCHANGED <<seedFrame, batchSize, concurrency, seedPhrases, seedPos, addressIndex,
                   storedCount, run, kvAfterFirst>>

SeedsNext ==
    \/ SeedsGetPhrases
    \/ SeqSeedSkip
    \/ SeqSeedBegin
    \/ SeqStore
    \/ SeqThrow
    \/ SeqSeedEnd
    \/ SeedsLoopEnd
    \/ SeqRunAgain
    \/ ParSeedSkip
    \/ ParSeedCall
    \/ ParSeedCallHangs

SpecSeeds == SeedsInit /\ [][SeedsNext]_vars

(***************************************************************************)
(* Claims about seedWallets and seedWalletsParallel                        *)
(***************************************************************************)
\* The keys of seed s among the kv.set calls made, in call order.
LogOfSeed(log, s) == SelectSeq(log, LAMBDA key : key[2] = s)

\* The keys of the indices 0..last of seed s, in ascending order.
KeysUpTo(s, last) == [k \in 1..(last + 1) |-> KvKey(s, k - 1)]

\* Entry p of seedPhrases has at least 12 words, and its processing in the first
\* run is over without an error.
ProcessedCleanly(p) ==
    /\ p < seedPos \/ pc = "done"
    /\ Len(Split(seedPhrases[p].phrase)) >= MinWords
    /\ <<1, seedPhrases[p].index>> \notin DOMAIN threw

\* C23: for every valid seed SEED_PHRASE_N and every maxAddressIndex >= 0 (0
\* included) seedWallets stores exactly the keys ["wallet_address", "seed_N", i] for
\* i = 0..maxAddressIndex, each with the value derive(phrase, i), in ascending index
\* order; no key with index maxAddressIndex + 1 or above is ever written.
C23_ValidSeedStoredInFull ==
    (fn = "seedWallets" /\ run = 1) =>
        /\ \A k \in 1..Len(kvLog) : kvLog[k][3] \in 0..maxAddressIndex
        /\ \A key \in DOMAIN kv : key[3] \in 0..maxAddressIndex
        /\ \A p \in 1..Len(seedPhrases) :
              ProcessedCleanly(p) =>
                 LET s == seedPhrases[p].index
                 IN /\ LogOfSeed(kvLog, s) = KeysUpTo(s, maxAddressIndex)
                    /\ \A i \in 0..maxAddressIndex :
                          /\ KvKey(s, i) \in DOMAIN kv
                          /\ kv[KvKey(s, i)] = Derive(seedPhrases[p].phrase, i)

\* C23 witness: maxAddressIndex = 0 and two valid seeds: seedWallets has returned
\* after exactly the two writes of index 0.
C23_Witness ==
    /\ fn = "seedWallets" /\ run = 1 /\ pc = "done"
    /\ maxAddressIndex = 0
    /\ threw = <<>>
    /\ kvLog = <<KvKey(1, 0), KvKey(2, 0)>>
    /\ kv[KvKey(2, 0)] = Derive(ValidPhrase(2), 0)

\* C24: a seed phrase with fewer than 12 space-separated words is skipped: no write
\* is made under its seed key, the seeds before and after it are processed in full,
\* and the total number of kv.set calls equals (number of valid seeds) x
\* (maxAddressIndex + 1), in seedWallets and in seedWalletsParallel. (The run is one
\* in which nothing throws; the seed phrases are those the scan returned.)
C24_ShortSeedSkipped ==
    run = 1 =>
        /\ \A n \in 1..MaxSeeds :
              (SeedKey(n) \in DOMAIN env /\ Len(Split(env[SeedKey(n)])) < MinWords) =>
                 /\ LogOfSeed(kvLog, n) = <<>>
                 /\ \A key \in DOMAIN kv : key[2] # n
        /\ (pc = "done" /\ threw = <<>>) =>
              LET valid == {p \in 1..Len(seedPhrases) :
                               Len(Split(seedPhrases[p].phrase)) >= MinWords}
              IN /\ Len(kvLog) = Cardinality(valid) * (maxAddressIndex + 1)
                 /\ \A p \in valid : \A i \in 0..maxAddressIndex :
                       /\ KvKey(seedPhrases[p].index, i) \in DOMAIN kv
                       /\ kvWrites[KvKey(seedPhrases[p].index, i)] = 1

\* C24 witness: SEED_PHRASE_2 has 11 words, SEED_PHRASE_1 and SEED_PHRASE_3 have 12:
\* seedWalletsParallel has returned after the writes of seeds 1 and 3 only.
C24_Witness ==
    /\ fn = "seedWalletsParallel" /\ pc = "done"
    /\ maxAddressIndex = 1
    /\ SeedKey(2) \in DOMAIN env /\ env[SeedKey(2)] = ShortPhrase(2)
    /\ threw = <<>>
    /\ kvLog = <<KvKey(1, 0), KvKey(1, 1), KvKey(3, 0), KvKey(3, 1)>>

\* C26: when the environment defines no SEED_PHRASE_1, seedWallets and
\* seedWalletsParallel return without calling kv.set and without creating any
\* worker: the store is left unchanged.
C26_NoFirstSeedNothingDone ==
    SeedKey(1) \notin DOMAIN env =>
        /\ kv = <<>> /\ kvLog = <<>> /\ kvWrites = <<>>
        /\ workersCreated = 0
        /\ pc \in {"begin", "done"}

\* C26 witness: SEED_PHRASE_2 holds a valid phrase and SEED_PHRASE_1 is not set:
\* seedWalletsParallel has returned.
C26_Witness ==
    /\ fn = "seedWalletsParallel" /\ pc = "done"
    /\ SeedKey(1) \notin DOMAIN env
    /\ SeedKey(2) \in DOMAIN env /\ env[SeedKey(2)] = ValidPhrase(2)
    /\ kv = <<>> /\ workersCreated = 0

\* C27: in seedWallets, when derivation or a store write throws at index j of seed
\* k, the exception is caught: the writes already made for seed k (indices below j)
\* remain, no further index of seed k is written, and every later seed is processed
\* exactly as if seed k had not failed.
C27_ThrowEndsOneSeedOnly ==
    /\ []((fn = "seedWallets" /\ run = 1) =>
            /\ \A t \in DOMAIN threw :
                  /\ LogOfSeed(kvLog, t[2]) = KeysUpTo(t[2], threw[t] - 1)
                  /\ \A i \in 0..maxAddressIndex :
                        KvKey(t[2], i) \in DOMAIN kv <=> i < threw[t]
            /\ pc = "done" =>
                  \A p \in 1..Len(seedPhrases) :
                     ProcessedCleanly(p) =>
                        LogOfSeed(kvLog, seedPhrases[p].index)
                            = KeysUpTo(seedPhrases[p].index, maxAddressIndex))
    /\ [][(fn = "seedWallets" /\ threw' # threw) =>
             /\ kv' = kv /\ kvLog' = kvLog
             /\ pc' = "seed" /\ seedPos' = seedPos + 1]_vars

\* C27 witness: two valid seeds, maxAddressIndex = 1: seed 1 threw at index 1 after
\* its write of index 0, and seed 2 was stored in full.
C27_Witness ==
    /\ fn = "seedWallets" /\ run = 1 /\ pc = "done"
    /\ threw = (<<1, 1>> :> 1)
    /\ kvLog = <<KvKey(1, 0), KvKey(2, 0), KvKey(2, 1)>>

\* C29: running seedWallets twice with the same environment and options leaves the
\* store identical to running it once (no call of the first run having thrown);
\* writing a (seed, index) key that already holds its address leaves that key's
\* value unchanged and adds no other key.
C29_SecondRunChangesNothing ==
    /\ []((fn = "seedWallets" /\ run = 2 /\ \A t \in DOMAIN threw : t[1] = 2) =>
             kv = kvAfterFirst)
    /\ [][(fn = "seedWallets" /\ kvLog' # kvLog) =>
             LET key == kvLog'[Len(kvLog')]
             IN (key \in DOMAIN kv /\ kv[key] = Derive(mnemonic, key[3])) => kv' = kv]_vars

\* C29 witness: two or more valid seeds with two indices each were stored by the
\* first run and written again by the second, which has returned.
C29_Witness ==
    /\ fn = "seedWallets" /\ run = 2 /\ pc = "done"
    /\ threw = <<>>
    /\ Len(kvLog) >= 8
    /\ \A key \in DOMAIN kv : kvWrites[key] = 2
    /\ kv = kvAfterFirst

(***************************************************************************)
(* Claims about main of wallet_balance_cli and about wallet_worker         *)
(***************************************************************************)
\* C28: in wallet_balance_cli main a final report is always generated, even when a
\* step fails: a failure while fetching the ETH balances or one token's balances is
\* logged and the run goes on to the next step and reaches report generation; the
\* process never exits before the report when the configuration is valid.
C28_ReportAlwaysGenerated ==
    [][/\ pc = "fetchEth" => pc' = "fetchToken"
       /\ pc = "fetchToken" => pc' = "report"
       /\ pc' # "exit"]_vars

\* C30: for each task message {startIndex, endIndex} it handles, wallet_worker posts
\* exactly one result message, which echoes startIndex and endIndex: either of type
\* 'success' with one address entry per index from startIndex to endIndex in
\* ascending order, or of type 'error' with no addresses at all; and it posts
\* nothing but the answer to a task.
C30_OneResultPerTask ==
    [][\A w \in DOMAIN inbox :
          /\ Len(inbox'[w]) < Len(inbox[w]) =>
                LET task == Head(inbox[w])
                    result == outbox'[w][Len(outbox'[w])]
                    size == task.endIndex - task.startIndex + 1
                IN /\ Len(inbox'[w]) = Len(inbox[w]) - 1
                   /\ Len(outbox'[w]) = Len(outbox[w]) + 1
                   /\ SubSeq(outbox'[w], 1, Len(outbox[w])) = outbox[w]
                   /\ result.startIndex = task.startIndex
                   /\ result.endIndex = task.endIndex
                   /\ \/ /\ result.type = "success"
                         /\ result.addresses =
                               [k \in 1..size |->
                                   [index |-> task.startIndex + k - 1,
                                    address |-> Derive(task.mnemonic, task.startIndex + k - 1)]]
                      \/ /\ result.type = "error"
                         /\ result.addresses = <<>>
          /\ Len(outbox'[w]) > Len(outbox[w]) => Len(inbox'[w]) < Len(inbox[w])]_vars

\* C30 witness: processAddressesWithWorkers with two workers: the first answered
\* its batch [0,1] with the two addresses, the second its batch [2,3] with an error.
C30_Witness ==
    /\ concurrency = 2
    /\ outbox[0] # <<>> /\ outbox[1] # <<>>
    /\ Head(outbox[0]).type = "success"
    /\ Head(outbox[0]).startIndex = 0 /\ Len(Head(outbox[0]).addresses) = 2
    /\ Head(outbox[1]).type = "error"
    /\ Head(outbox[1]).startIndex = 2 /\ Head(outbox[1]).endIndex = 3

(***************************************************************************)
(* Claims about the dispatch, the progress report and the settling of the  *)
(* two pools                                                               *)
(***************************************************************************)
\* C32: in processAddressesWithWorkers batches are dispatched in ascending index
\* order (a batch is posted only when no later batch has been posted), and once the
\* pool has handled a result of a worker, success or error, that worker is given a
\* batch whenever a batch that was never posted remains.
C32_WorkerGetsNextBatchAfterAnyResult ==
    [][/\ \A k \in DOMAIN posted :
            posted'[k] > posted[k] => \A j \in DOMAIN posted : j > k => posted[j] = 0
       /\ \A w \in DOMAIN outbox :
            (/\ outbox[w] # <<>>
             /\ Head(outbox[w]).type = "error"
             /\ outbox'[w] = Tail(outbox[w])
             /\ \E k \in DOMAIN posted : posted[k] = 0)
                => Len(inbox'[w]) = Len(inbox[w]) + 1
       /\ \A h \in awaiting \ awaiting' :
            (h.todo = {} /\ \E k \in DOMAIN posted : posted[k] = 0)
                => Len(inbox'[h.worker]) = Len(inbox[h.worker]) + 1]_vars

\* Batches of processAddressesWithWorkers whose result was handled to the end:
\* received and not in a handler that is still suspended on its writes.
Completed ==
    {k \in answered :
        \A h \in awaiting :
            BatchIndexOf(PoolBatches(maxAddressIndex, batchSize), h.result) # k}

\* C33: the percentage of the `Progress:` line a pool logs after it handled a
\* result is completedBatches / totalBatches (rounded to a whole percentage), it
\* never decreases from one line to the next, and it stays between 0 and 100.
C33_ProgressIsCompletedFraction ==
    /\ [](progress # NoReport => progress \in 0..100)
    /\ [][/\ progress' >= progress
          /\ (workerCount > 0 /\ completedBatches' # completedBatches) =>
                progress' = Percent(completedBatches', Len(Batches(count, batchSize)))
          /\ \A h \in awaiting \ awaiting' :
                h.todo = {} =>
                    progress' = Percent(Cardinality(Completed'),
                                        Len(PoolBatches(maxAddressIndex, batchSize)))]_vars

\* C34: the promise generateWalletsParallel returns eventually settles for every
\* count >= 0 and every workerCount >= 1 when every worker answers the tasks it was
\* sent; for count = 0 it resolves with the empty array and every worker has been
\* terminated.
C34_GenPromiseSettles ==
    <>(/\ settled # "pending"
       /\ count = 0 =>
            /\ settled = "resolved"
            /\ addresses = <<>>
            /\ \A w \in DOMAIN terminated : terminated[w] >= 1)

(***************************************************************************)
(* seed_wallets_parallel.ts (the Promise-based version):                   *)
(* processAddressesInParallel                                              *)
(***************************************************************************)
\* Math.ceil(a / b) for a >= 0, b >= 1
Ceil(a, b) == (a + b - 1) \div b

\* const batchSize = Math.ceil(maxAddressIndex / concurrency)
ParallelBatchSize(maxIdx, c) == Ceil(maxIdx, c)

\* Array.from({ length: end - i + 1 }, (_, idx) => i + idx)
Range(i, end) == [idx \in 1..(end - i + 1) |-> i + idx - 1]

\* the addressIndex values of all the ranges of `batches`
RangeIndices(batches) ==
    UNION {{batches[b][j] : j \in DOMAIN batches[b]} : b \in DOMAIN batches}

ParallelInit ==
    /\ pc = "begin"
    /\ fn = "processAddressesInParallel"
    /\ seedIndex = 1
    /\ mnemonic = 1
    /\ maxAddressIndex \in 0..MaxCount
    /\ concurrency \in 1..MaxWorkers
    /\ optBatchSize = 0 /\ loopIndex = 0 /\ batchList = <<>>
    /\ processedCount = 0 /\ pendingBatches = 0
    /\ kv = <<>> /\ kvWrites = <<>> /\ awaiting = {}
    /\ PoolIdle /\ GenIdle /\ ProbeIdle /\ CliIdle /\ SeedIdle

\* const batches = []; const batchSize = Math.ceil(maxAddressIndex / concurrency);
\* let i = 0
ParallelBegin ==
    /\ pc = "begin"
    /\ batchSize' = ParallelBatchSize(maxAddressIndex, concurrency)
    /\ loopIndex' = 0
    /\ batchList' = <<>>
    /\ pc' = "loop"
    /\ UNCHANGED <<inbox, outbox, terminated, crashed, posted, answered, failed, settled,
                   resolveValue, progress, genVars, pawVars, probeVars, cliVars, fn,
                   optBatchSize, seedVars>>

\* one round of `for (let i = 0; i <= maxAddressIndex; i += batchSize)`: push the
\* range i..Math.min(i + batchSize - 1, maxAddressIndex). The model follows the
\* loop while the list has at most MaxCount + 1 ranges.
ParallelBatchStep ==
    /\ pc = "loop"
    /\ loopIndex <= maxAddressIndex
    /\ Len(batchList) <= MaxCount + 1
    /\ batchList' = Append(batchList,
                           Range(loopIndex, Min(loopIndex + batchSize - 1, maxAddressIndex)))
    /\ loopIndex' = loopIndex + batchSize
    /\ UNCHANGED <<pc, poolVars, genVars, pawVars, probeVars, cliVars, fn, optBatchSize,
                   seedVars>>

\* the loop ends; batches.map(processBatch) runs every processBatch up to its await:
\* one kv.set is issued for each index of each range, in the order of the ranges
ParallelIssue ==
    /\ pc = "loop"
    /\ loopIndex > maxAddressIndex
    /\ awaiting' = RangeIndices(batchList)
    /\ kvLog' = [n \in 1..Cardinality(RangeIndices(batchList)) |->
                    KvKey(seedIndex,
                          CHOOSE i \in RangeIndices(batchList) :
                              Cardinality({j \in RangeIndices(batchList) : j < i}) = n - 1)]
    /\ pc' = "storing"
    /\ UNCHANGED <<poolVars, genVars, probeVars, cliVars, partVars, seedIndex, mnemonic,
                   maxAddressIndex, concurrency, processedCount, pendingBatches, kv,
                   kvWrites, env, seedPhrases, seedPos, addressIndex, storedCount, run,
                   threw, kvAfterFirst, workersCreated>>

\* the kv.set issued for index i takes effect
ParallelKvSetDone(i) ==
    /\ pc \in {"storing", "threw"}
    /\ i \in awaiting
    /\ kv' = KvSet(kv, KvKey(seedIndex, i), Derive(mnemonic, i))
    /\ kvWrites' = CountWrite(kvWrites, KvKey(seedIndex, i))
    /\ awaiting' = awaiting \ {i}
    /\ UNCHANGED <<pc, poolVars, genVars, probeVars, cliVars, partVars, seedVars, seedIndex,
                   mnemonic, maxAddressIndex, concurrency, processedCount, pendingBatches>>

\* the kv.set issued for index i rejects: Promise.all rejects and the function
\* throws, while the other writes stay in flight
ParallelKvSetRejects(i) ==
    /\ pc \in {"storing", "threw"}
    /\ i \in awaiting
    /\ awaiting' = awaiting \ {i}
    /\ settled' = Settle(settled, "rejected")
    /\ pc' = "threw"
    /\ UNCHANGED <<inbox, outbox, terminated, crashed, posted, answered, failed,
                   resolveValue, batchSize, progress, genVars, probeVars, cliVars, partVars,
                   seedVars, seedIndex, mnemonic, maxAddressIndex, concurrency,
                   processedCount, pendingBatches, kv, kvWrites>>

\* await Promise.all(batches.map(processBatch)) is over: return maxAddressIndex + 1
ParallelReturn ==
    /\ pc = "storing"
    /\ awaiting = {}
    /\ settled' = Settle(settled, "resolved")
    /\ resolveValue' = maxAddressIndex + 1
    /\ pc' = "returned"
    /\ UNCHANGED <<inbox, outbox, terminated, crashed, posted, answered, failed, batchSize,
                   progress, genVars, pawVars, probeVars, cliVars, partVars, seedVars>>

ParallelNext ==
    \/ ParallelBegin
    \/ ParallelBatchStep
    \/ ParallelIssue
    \/ \E i \in awaiting : ParallelKvSetDone(i)
    \/ \E i \in awaiting : ParallelKvSetRejects(i)
    \/ ParallelReturn

SpecParallel == ParallelInit /\ [][ParallelNext]_vars

\* C35: processAddressesInParallel terminates for every maxAddressIndex >= 0 and
\* every concurrency >= 1: every round of its batch loop moves i forward, so the
\* loop ends; and when it returns, exactly one kv.set was issued and has taken
\* effect for each index 0..maxAddressIndex and for nothing else, so that the store
\* is the one sequential seedWallets leaves.
C35_ParallelTerminatesWithFullStore ==
    /\ [][(pc = "loop" /\ pc' = "loop") => loopIndex' > loopIndex]_vars
    /\ [](pc = "returned" =>
            /\ kv = SeedWalletsStore(seedIndex, mnemonic, maxAddressIndex)
            /\ Len(kvLog) = maxAddressIndex + 1
            /\ \A i \in 0..maxAddressIndex : kvWrites[KvKey(seedIndex, i)] = 1)

\* C36: seedWalletsParallel (Workers version) handles the seeds strictly one after
\* another: once the promise of processAddressesWithWorkers for a seed has settled,
\* no kv.set of that seed is still in flight and no live worker of that seed still
\* holds a batch.
C36_SettledMeansSeedIsOver ==
    settled # "pending" =>
        /\ \A h \in awaiting : h.todo = {}
        /\ \A w \in DOMAIN inbox : ~(Alive(w) /\ inbox[w] # <<>>)

(***************************************************************************)
(* Claims about the tiers of one level of runBenchmark                     *)
(***************************************************************************)
\* C37: in runBenchmark every tier of BATCH_SIZES is tried at every wallet count,
\* also after an earlier tier succeeded: each tier is called at least once, a
\* successful call moves on to the next tier, and the level is evaluated only after
\* the last tier. The level counts as successful exactly when some call returned
\* with every sub-lookup successful, and the best result of the level is then a
\* successful result of this wallet count with the smallest timeMs measured.
C37_EveryTierTriedBestIsFastest ==
    /\ [](pc = "eval" =>
            /\ tier = Len(BATCH_SIZES)
            /\ levelStats.calls >= Len(BATCH_SIZES))
    /\ [](pc \in {"call", "delay", "eval"} =>
            /\ bestResult # NoResult <=> fastest > 0
            /\ bestResult # NoResult =>
                  /\ bestResult.success
                  /\ bestResult.walletCount = walletCount
                  /\ bestResult.timeMs = fastest
                  /\ \E k \in DOMAIN BATCH_SIZES : bestResult.batchSize = BATCH_SIZES[k])
    /\ [][/\ pc = "call" =>
                /\ levelStats'.calls = levelStats.calls + 1
                /\ tier' \in {tier, tier + 1}
                /\ fastest' # fastest => (tier' = tier + 1 /\ pc' # "delay")
                /\ (tier' = tier + 1 /\ tier' < Len(BATCH_SIZES)) => pc' = "call"
          /\ pc = "eval" => lastLevel'.success = (fastest > 0)]_vars

\* C37 witness: the level at 10 wallets is evaluated after all five tiers were
\* called: the first tier (1024) succeeded in 2 ms, as the log shows, the third
\* tier (4096) succeeded later in 1 ms and is the best result.
C37_Witness ==
    /\ pc = "eval"
    /\ walletCount = 10
    /\ benchmarkResults = <<BenchmarkResult(10, 1024, TRUE, 2)>>
    /\ bestResult = BenchmarkResult(10, 4096, TRUE, 1)
    /\ tier = Len(BATCH_SIZES)

====
